---- MODULE Spec2Model ----
(***************************************************************************)
(* Model of BatonCore's plan-then-execute engine (src/BatonCore/ctl.ts):   *)
(* PageNavigator.plan (the bounded tool-calling negotiation with its read  *)
(* cache), PageNavigator.execute (the sequential step executor) and the    *)
(* helpers they call, and of the result synthesizer extractFinalOutput     *)
(* that executeWebTask (src/BatonCore/web-automation.ts) applies to them.  *)
(*                                                                         *)
(* Strings of the program (tool names, step names, queries) are sequences *)
(* of one-character strings, so that toLowerCase, trim and the regular    *)
(* expressions are computed on them.                                       *)
(***************************************************************************)
EXTENDS Integers, Sequences, FiniteSets, TLC

VARIABLES
    state,        \* plan(): "Negotiating" | "Finalized" | "Exhausted" | "Failed"
    iter,         \* plan(): the loop counter of the round loop
    messages,     \* plan(): the transcript
    cache,        \* plan(): Map "name::query" -> payload
    clearCacheBeforeNextRead, \* plan(): the pending-invalidation flag
    msg,          \* plan(): the completion message of the current round
    toolCalls,    \* plan(): tool calls of the current round not yet processed
    tc,           \* plan(): the tool call processed last
    planResult,   \* plan(): the value returned (a Plan) or NoPlan
    planError,    \* plan(): the error thrown, or NoError
    requests,     \* environment: completion requests issued so far
    invocations,  \* environment: capability-provider calls, in order
    pageVersion,  \* environment: number of act invocations the page has seen
    xstate,       \* execute(): "unstarted" | "idle" | "invoke" | "capture" | "returned" | "rejected"
    xplan,        \* execute(): the plan argument
    xi,           \* execute(): the loop index i
    outputs,      \* execute(): the outputs array
    xerror,       \* execute(): the error it rejected with, or NoError
    captures,     \* environment: artifact capture requests, in order
    fnCall,       \* a helper function under study: the call made, with its arguments
    fnRet,        \* ... and what it returned or threw, once it has been applied
    browser,      \* executeWebTask: "none" | "open" | "closed"
    page,         \* executeWebTask: "none" | "open" | "closed"
    taskResult,   \* executeWebTask: the AutomationResult returned, or NoResult
    response,     \* POST /api/execute: the response sent, or NoResponse
    retryCount,   \* ApiClient: the retry counter of the instance
    reqs,         \* ApiClient: the requests made on the instance
    appState,     \* useAppStore: the state held by the store
    initialState, \* useAppStore: the module's initialState object
    lastAction,   \* useAppStore: the store action called last
    dirty,        \* useAppStore: the fields reset() found changed, when it ran last
    sessions,     \* plan() calls on one PageNavigator: the locals of each call
    screens       \* the app: the state of HomeScreen and ResultScreen

planVars == <<state, iter, messages, cache, clearCacheBeforeNextRead, msg, toolCalls, tc,
              planResult, planError, requests, invocations, pageVersion>>
execVars == <<xstate, xplan, xi, outputs, xerror, captures>>
fnVars == <<fnCall, fnRet>>
taskVars == <<browser, page, taskResult, response>>
clientVars == <<retryCount, reqs>>
storeVars == <<appState, initialState, lastAction, dirty>>
sessionVars == <<sessions>>
screenVars == <<screens>>
appVars == <<taskVars, clientVars, storeVars, sessionVars, screenVars>>
vars == <<planVars, execVars, fnVars, appVars>>

-----------------------------------------------------------------------------
(* Strings as character sequences.                                         *)

Uppers == <<"A","B","C","D","E","F","G","H","I","J","K","L","M",
            "N","O","P","Q","R","S","T","U","V","W","X","Y","Z">>
Lowers == <<"a","b","c","d","e","f","g","h","i","j","k","l","m",
            "n","o","p","q","r","s","t","u","v","w","x","y","z">>

LowerChar(c) ==
    IF \E k \in DOMAIN Uppers : Uppers[k] = c
    THEN Lowers[CHOOSE k \in DOMAIN Uppers : Uppers[k] = c]
    ELSE c

\* String.prototype.toLowerCase
toLowerCase(s) == [k \in DOMAIN s |-> LowerChar(s[k])]

IsSpace(c) == c \in {" ", "\t", "\n"}

\* String.prototype.trim
trim(s) ==
    IF \A k \in DOMAIN s : IsSpace(s[k]) THEN <<>>
    ELSE LET first == CHOOSE a \in DOMAIN s :
                         /\ ~IsSpace(s[a])
                         /\ \A b \in 1..(a - 1) : IsSpace(s[b])
             last  == CHOOSE a \in DOMAIN s :
                         /\ ~IsSpace(s[a])
                         /\ \A b \in (a + 1)..Len(s) : IsSpace(s[b])
         IN  SubSeq(s, first, last)

\* /^w/.test(s)
StartsWith(s, w) == Len(w) <= Len(s) /\ SubSeq(s, 1, Len(w)) = w

\* /w/.test(s)
Contains(s, w) ==
    \E a \in 1..(Len(s) - Len(w) + 1) : SubSeq(s, a, a + Len(w) - 1) = w

ContainsAny(s, ws) == \E w \in ws : Contains(s, w)

observe == <<"o","b","s","e","r","v","e">>
extract == <<"e","x","t","r","a","c","t">>
act     == <<"a","c","t">>
finalize_plan == <<"f","i","n","a","l","i","z","e","_","p","l","a","n">>

CommandNames == {observe, extract, act}

ObserveWords == { <<"e","n","s","u","r","e">>, <<"v","e","r","i","f","y">>,
                  <<"c","h","e","c","k">>, <<"c","o","n","f","i","r","m">> }
ActWords == { <<"c","l","i","c","k">>, <<"t","y","p","e">>, <<"p","r","e","s","s">>,
              <<"n","a","v","i","g","a","t","e">>, <<"o","p","e","n">>,
              <<"s","e","l","e","c","t">>, <<"s","u","b","m","i","t">>,
              <<"s","c","r","o","l","l">>, <<"h","o","v","e","r">> }
ExtractWords == { <<"r","e","a","d">>, <<"g","e","t">>, <<"s","c","r","a","p","e">>,
                  <<"c","a","p","t","u","r","e">>, <<"g","r","a","b">>,
                  <<"c","o","p","y">>, extract }

\* normalizeCommandName's null; the callers test it with !norm, which the empty
\* string satisfies as well, and no rule returns the empty string.
Null == <<>>

\* the act rule tried before the observe rule
normalizeCommandNameActFirst(name) ==
    LET n == trim(toLowerCase(name)) IN
    IF n \in CommandNames THEN n
    ELSE IF ContainsAny(n, ActWords) THEN act
    ELSE IF StartsWith(n, <<"w","a","i","t">>) \/ ContainsAny(n, ObserveWords) THEN observe
    ELSE IF ContainsAny(n, ExtractWords) THEN extract
    ELSE Null

\* wait matched anywhere in the name
normalizeCommandNameWaitAnywhere(name) ==
    LET n == trim(toLowerCase(name)) IN
    IF n \in CommandNames THEN n
    ELSE IF Contains(n, <<"w","a","i","t">>) \/ ContainsAny(n, ObserveWords) THEN observe
    ELSE IF ContainsAny(n, ActWords) THEN act
    ELSE IF ContainsAny(n, ExtractWords) THEN extract
    ELSE Null

normalizeCommandName(name) ==
    LET n == trim(toLowerCase(name)) IN
    IF n \in CommandNames THEN n
    ELSE IF StartsWith(n, <<"w","a","i","t">>) \/ ContainsAny(n, ObserveWords) THEN observe
    ELSE IF ContainsAny(n, ActWords) THEN act
    ELSE IF ContainsAny(n, ExtractWords) THEN extract
    ELSE Null

-----------------------------------------------------------------------------
(* JSON values, as far as validatePlan and plan() look into them.          *)

Undefined == [type |-> "undefined"]
JsNull    == [type |-> "null"]
JsNumber  == [type |-> "number"]
Str(v)    == [type |-> "string", val |-> v]
Arr(items) == [type |-> "array", items |-> items]
\* a raw plan step {name, query}
RawStep(name, query) == [type |-> "object", name |-> name, query |-> query]
\* the parsed arguments of a tool call: {plan, query}
Obj(plan, query) == [type |-> "object", plan |-> plan, query |-> query]

\* !v
Falsy(v) ==
    \/ v.type \in {"undefined", "null"}
    \/ v.type = "string" /\ v.val = <<>>

\* Thrown errors, by kind.  index and why are the step index and the reason an
\* InvalidPlanStep message carries.
NoError == [kind |-> "none", index |-> -1, why |-> ""]
Err(kind) == [kind |-> kind, index |-> -1, why |-> ""]
StepErr(idx, why) == [kind |-> "InvalidPlanStep", index |-> idx, why |-> why]

\* a validator that forgets to throw on a name it cannot normalize
validateStepKeepsName(step, idx) ==
    IF Falsy(step) \/ step.type # "object"
    THEN [ok |-> FALSE, error |-> StepErr(idx, "not an object")]
    ELSE IF Falsy(step.query) \/ step.query.type # "string"
         THEN [ok |-> FALSE, error |-> StepErr(idx, "query")]
    ELSE IF step.name.type = "string" /\ step.name.val \in CommandNames
         THEN [ok |-> TRUE, step |-> [name |-> step.name.val, query |-> step.query.val]]
    ELSE LET norm == IF step.name.type = "string"
                     THEN normalizeCommandName(step.name.val) ELSE Null
         IN  [ok |-> TRUE, step |-> [name |-> norm, query |-> step.query.val]]

\* a validator that checks the name but returns the step as it came
validateStepNoCoerce(step, idx) ==
    IF Falsy(step) \/ step.type # "object"
    THEN [ok |-> FALSE, error |-> StepErr(idx, "not an object")]
    ELSE IF Falsy(step.query) \/ step.query.type # "string"
         THEN [ok |-> FALSE, error |-> StepErr(idx, "query")]
    ELSE LET norm == IF step.name.type = "string"
                     THEN normalizeCommandName(step.name.val) ELSE Null
         IN  IF norm = Null THEN [ok |-> FALSE, error |-> StepErr(idx, "name")]
             ELSE [ok |-> TRUE, step |-> [name |-> step.name.val, query |-> step.query.val]]

\* The callback of raw.plan.map in validatePlan: the validated step, or the
\* error it throws.  idx is the 0-based index the code reports.
validateStep(step, idx) ==
    IF Falsy(step) \/ step.type # "object"
    THEN [ok |-> FALSE, error |-> StepErr(idx, "not an object")]
    ELSE IF Falsy(step.query) \/ step.query.type # "string"
         THEN [ok |-> FALSE, error |-> StepErr(idx, "query")]
    ELSE IF step.name.type = "string" /\ step.name.val \in CommandNames
         THEN [ok |-> TRUE, step |-> [name |-> step.name.val, query |-> step.query.val]]
    ELSE LET norm == IF step.name.type = "string"
                     THEN normalizeCommandName(step.name.val) ELSE Null
         IN  IF norm = Null THEN [ok |-> FALSE, error |-> StepErr(idx, "name")]
             ELSE [ok |-> TRUE, step |-> [name |-> norm, query |-> step.query.val]]

\* a validator that reports the last offending step
validatePlanLastError(raw) ==
    IF Falsy(raw) \/ raw.type # "object" \/ raw.plan.type # "array"
    THEN [ok |-> FALSE, error |-> Err("InvalidPlanShape")]
    ELSE LET items == raw.plan.items
             bad == {k \in DOMAIN items : ~validateStep(items[k], k - 1).ok}
         IN  IF bad # {}
             THEN LET k == CHOOSE a \in bad : \A b \in bad : a >= b
                  IN  [ok |-> FALSE, error |-> validateStep(items[k], k - 1).error]
             ELSE [ok |-> TRUE,
                   plan |-> [k \in DOMAIN items |-> validateStep(items[k], k - 1).step]]

validatePlan(raw) ==
    IF Falsy(raw) \/ raw.type # "object" \/ raw.plan.type # "array"
    THEN [ok |-> FALSE, error |-> Err("InvalidPlanShape")]
    ELSE LET items == raw.plan.items
             bad == {k \in DOMAIN items : ~validateStep(items[k], k - 1).ok}
         IN  IF bad # {}
             THEN \* Array.prototype.map visits the steps in order: the first throw wins
                  LET k == CHOOSE a \in bad : \A b \in bad : a <= b
                  IN  [ok |-> FALSE, error |-> validateStep(items[k], k - 1).error]
             ELSE [ok |-> TRUE,
                   plan |-> [k \in DOMAIN items |-> validateStep(items[k], k - 1).step]]

\* The text content of a completion message, by what JSON.parse and the fence
\* regular expression make of it: direct is JSON.parse(content), fence is the
\* first ```-fenced block (present = the match has a non-empty group 1).
Parsed(val) == [ok |-> TRUE, val |-> val]
Unparsed == [ok |-> FALSE, val |-> Undefined]
Text(id, blank, direct, hasFence, fenced) ==
    [type |-> "string", text |-> id, blank |-> blank, direct |-> direct,
     hasFence |-> hasFence, fenced |-> fenced]

\* a parser that gives up quietly: no fence found yields undefined
safeParsePlanQuiet(content) ==
    IF content.direct.ok THEN [ok |-> TRUE, val |-> content.direct.val]
    ELSE IF ~content.hasFence THEN [ok |-> TRUE, val |-> Undefined]
    ELSE IF content.fenced.ok THEN [ok |-> TRUE, val |-> content.fenced.val]
    ELSE [ok |-> FALSE, error |-> Err("SyntaxError")]

safeParsePlan(content) ==
    IF content.direct.ok THEN [ok |-> TRUE, val |-> content.direct.val]
    ELSE IF ~content.hasFence THEN [ok |-> FALSE, error |-> Err("NoJsonCodeFence")]
    ELSE IF content.fenced.ok THEN [ok |-> TRUE, val |-> content.fenced.val]
    ELSE [ok |-> FALSE, error |-> Err("SyntaxError")]

-----------------------------------------------------------------------------
(* The collaborators of plan(): the completion provider's messages and the *)
(* capability provider.                                                    *)

\* completion.choices[0]?.message
NoMessage == [type |-> "none"]
Message(content, calls) == [type |-> "message", content |-> content, tool_calls |-> calls]
\* one element of msg.tool_calls: function.name and function.arguments, the
\* latter by whether JSON.parse accepts it and what it yields
ToolCall(id, name, arguments) == [id |-> id, name |-> name, arguments |-> arguments]

\* no tool call processed yet
NoCall == ToolCall(<<0, 0>>, Undefined, Unparsed)

\* Transcript entries
SystemEntry == [role |-> "system", content |-> [prompt |-> "plannerSystemPrompt"]]
UserEntry == [role |-> "user", content |-> [prompt |-> "plannerUserPrompt"]]
AssistantCalls(calls) == [role |-> "assistant", tool_calls |-> calls]
AssistantText(content) == [role |-> "assistant", content |-> content]
\* a tool result that is not tagged with the id of its call
ToolEntryUntagged(id, name, content) ==
    [role |-> "tool", tool_call_id |-> <<0, 0>>, name |-> name, content |-> content]

ToolEntry(id, name, content) ==
    [role |-> "tool", tool_call_id |-> id, name |-> name, content |-> content]

EmptyString == Text("", TRUE, Unparsed, FALSE, Unparsed)

\* What stagehand.observe / extract / act resolve to on the page as it is after
\* v act invocations.
Returned(name, query, v) == [result |-> name, query |-> query, version |-> v]
\* JSON.stringify({ error: message })
ErrorPayload(message) == [error |-> message]
UnknownTool(fnName) == [error |-> "Unknown tool", tool |-> fnName]
Received == [status |-> "received"]

\* The rejections a capability call can end with: the message of the error.
Rejections == {"timeout"}
Outcomes == {"ok"} \cup Rejections

\* a catch block that drops the error's message
invokeStagehandDropsMessage(name, query, outcome, v) ==
    IF name \notin CommandNames THEN [error |-> "Unknown command", tool |-> Str(name)]
    ELSE IF outcome = "ok" THEN Returned(name, query, v)
    ELSE ErrorPayload("")

\* invokeStagehand(name, query) when the provider call ends with `outcome`
invokeStagehand(name, query, outcome, v) ==
    IF name \notin CommandNames THEN [error |-> "Unknown command", tool |-> Str(name)]
    ELSE IF outcome = "ok" THEN Returned(name, query, v)
    ELSE ErrorPayload(outcome)

\* the caller of an invocation made for plan step k by execute(); tool calls
\* are identified by <<round, position>> with round >= 1
StepCaller(k) == <<0, k>>

\* One call of stagehand.observe / extract / act, as the provider sees it, and
\* on whose behalf it was made (a tool call id, or a plan step's position).
Invocation(name, query, outcome, v, caller) ==
    [name |-> name, query |-> query, outcome |-> outcome, version |-> v,
     caller |-> caller]

-----------------------------------------------------------------------------
(* PageNavigator.plan                                                      *)

MaxIter == 16

NoPlan == [returned |-> FALSE, plan |-> <<>>]
Plan(p) == [returned |-> TRUE, plan |-> p]

\* a loop that runs one round too many
LoopContinuesOffByOne(i) == i <= MaxIter

\* the condition of the round loop
LoopContinues(i) == i < MaxIter

IsRead(validName) == validName \in {observe, extract}

\* a name test that lets every tool name through
IsCapabilityAnyName(validName) == TRUE

\* ["observe", "extract", "act"].includes(validName)
IsCapability(validName) == validName \in CommandNames

\* `${validName}::${query}`
Key(validName, query) == <<validName, query>>

\* clearing without testing that the call is a read
ClearsCacheOnAnyCall(validName, flag) == flag

\* the flag test inverted
ClearsCacheInverted(validName, flag) == IsRead(validName) /\ ~flag

\* a cache that is never cleared
ClearsCacheNever(validName, flag) == FALSE

\* "Clear cache at first read after an act"
ClearsCache(validName, flag) == IsRead(validName) /\ flag

\* serving observe from the cache and forgetting extract
ServedFromCacheObserveOnly(validName, key, c) == validName = observe /\ key \in DOMAIN c

\* "Serve cached reads if available"
ServedFromCache(validName, key, c) == IsRead(validName) /\ key \in DOMAIN c

\* storing every result
CachesResultAlways(validName) == TRUE

\* "Update cache & flags": act results are never stored
CachesResult(validName) == validName # act

\* a cache that does not keep error payloads
CacheSetSkipsErrors(c, key, result) ==
    IF "error" \in DOMAIN result THEN c
    ELSE [k \in DOMAIN c \cup {key} |-> IF k = key THEN result ELSE c[k]]

\* cache.set(key, result)
CacheSet(c, key, result) ==
    [k \in DOMAIN c \cup {key} |-> IF k = key THEN result ELSE c[k]]

\* args.query ?? ""
QueryOf(args) ==
    IF args.type = "object" /\ args.query.type \notin {"undefined", "null"}
    THEN args.query.val ELSE <<>>

Throw(e) ==
    /\ state' = "Failed"
    /\ planError' = e
    /\ UNCHANGED <<iter, planResult>>

\* a finalize that records the plan and lets the round go on
ReturnKeepsGoing(p) ==
    /\ state' = "Negotiating"
    /\ planResult' = Plan(p)
    /\ UNCHANGED <<iter, planError>>

Return(p) ==
    /\ state' = "Finalized"
    /\ planResult' = Plan(p)
    /\ UNCHANGED <<iter, planError>>

\* `continue` in the round loop: iter++, then the loop test, then the throw
\* after the loop.
Continue ==
    /\ iter' = iter + 1
    /\ state' = IF LoopContinues(iter + 1) THEN "Negotiating" ELSE "Exhausted"
    /\ planError' = IF LoopContinues(iter + 1) THEN NoError ELSE Err("PlanningExhausted")
    /\ UNCHANGED planResult

\* One pass of the round loop up to the tool-call loop: the completion request
\* and, for a message without tool calls, the fallback path.
RequestCompletion(m) ==
    /\ state = "Negotiating"
    /\ toolCalls = <<>>
    /\ requests' = requests + 1
    /\ msg' = m
    /\ UNCHANGED <<cache, clearCacheBeforeNextRead, tc, invocations, pageVersion, execVars, fnVars, appVars>>
    /\ IF m = NoMessage
       THEN Throw(Err("NoCompletionMessage")) /\ UNCHANGED <<messages, toolCalls>>
       ELSE IF Len(m.tool_calls) > 0
       THEN /\ messages' = Append(messages, AssistantCalls(m.tool_calls))
            /\ toolCalls' = m.tool_calls
            /\ UNCHANGED <<state, iter, planResult, planError>>
       ELSE IF m.content.type = "string" /\ ~m.content.blank
       THEN LET parsed == safeParsePlan(m.content) IN
            /\ UNCHANGED <<messages, toolCalls>>
            /\ IF ~parsed.ok THEN Throw(parsed.error)
               ELSE LET v == validatePlan(parsed.val) IN
                    IF v.ok THEN Return(v.plan) ELSE Throw(v.error)
       ELSE /\ messages' = Append(messages,
                   AssistantText(IF m.content.type = "string"
                                 THEN m.content ELSE EmptyString))
            /\ UNCHANGED toolCalls
            /\ Continue

\* One pass of the loop over the round's tool calls; `outcome` is how the
\* capability provider answers if it is invoked.
ProcessToolCall(outcome) ==
    /\ state = "Negotiating"
    /\ toolCalls # <<>>
    /\ toolCalls' = Tail(toolCalls)
    /\ tc' = Head(toolCalls)
    /\ UNCHANGED <<requests, msg, execVars, fnVars, appVars>>
    /\ LET call == Head(toolCalls)
           fnName == call.name
           last == Tail(toolCalls) = <<>>
       IN
       IF ~call.arguments.ok
       THEN \* JSON.parse(tc.function.arguments) throws
            /\ Throw(Err("SyntaxError"))
            /\ UNCHANGED <<messages, cache, clearCacheBeforeNextRead, invocations, pageVersion>>
       ELSE
       LET args == call.arguments.val IN
       IF fnName = Str(finalize_plan)
       THEN LET v == validatePlan(args) IN
            /\ UNCHANGED <<cache, clearCacheBeforeNextRead, invocations, pageVersion>>
            /\ IF v.ok
               THEN /\ messages' = Append(messages, ToolEntry(call.id, Str(finalize_plan), Received))
                    /\ Return(v.plan)
               ELSE /\ UNCHANGED messages
                    /\ Throw(v.error)
       ELSE
       LET validName == toLowerCase(IF fnName.type = "string" THEN fnName.val ELSE <<>>) IN
       IF ~IsCapability(validName)
       THEN /\ messages' = Append(messages, ToolEntry(call.id,
                   IF fnName.type = "string" THEN fnName ELSE Str(<<"u","n","k","n","o","w","n">>),
                   UnknownTool(fnName)))
            /\ UNCHANGED <<cache, clearCacheBeforeNextRead, invocations, pageVersion>>
            /\ IF last THEN Continue ELSE UNCHANGED <<state, iter, planResult, planError>>
       ELSE IF args.type = "null"
       THEN \* args.query on null
            /\ Throw(Err("TypeError"))
            /\ UNCHANGED <<messages, cache, clearCacheBeforeNextRead, invocations, pageVersion>>
       ELSE
       LET query == QueryOf(args)
           key == Key(validName, query)
           clears == ClearsCache(validName, clearCacheBeforeNextRead)
           cache1 == IF clears THEN <<>> ELSE cache
           flag1 == IF clears THEN FALSE ELSE clearCacheBeforeNextRead
       IN
       IF ServedFromCache(validName, key, cache1)
       THEN /\ messages' = Append(messages, ToolEntry(call.id, Str(validName), cache1[key]))
            /\ cache' = cache1
            /\ clearCacheBeforeNextRead' = flag1
            /\ UNCHANGED <<invocations, pageVersion>>
            /\ IF last THEN Continue ELSE UNCHANGED <<state, iter, planResult, planError>>
       ELSE
       LET result == invokeStagehand(validName, query, outcome, pageVersion) IN
            /\ invocations' = Append(invocations,
                                     Invocation(validName, query, outcome, pageVersion, call.id))
            /\ pageVersion' = IF validName = act THEN pageVersion + 1 ELSE pageVersion
            /\ IF ~CachesResult(validName)
               THEN clearCacheBeforeNextRead' = TRUE /\ cache' = cache1
               ELSE clearCacheBeforeNextRead' = flag1 /\ cache' = CacheSet(cache1, key, result)
            /\ messages' = Append(messages, ToolEntry(call.id, Str(validName), result))
            /\ IF last THEN Continue ELSE UNCHANGED <<state, iter, planResult, planError>>

-----------------------------------------------------------------------------
(* PageNavigator.execute                                                   *)

Digits == {"0","1","2","3","4","5","6","7","8","9"}

\* [a-z0-9]
IsSlugChar(c) == c \in Digits \/ \E k \in DOMAIN Lowers : Lowers[k] = c

\* 'http://'
HttpScheme ==
    <<"h","t","t","p",":","/","/">>
\* 'https://'
HttpsScheme ==
    <<"h","t","t","p","s",":","/","/">>

\* the characters of s at the positions in keep, in order
Pick(s, keep) ==
    LET numbered == [k \in DOMAIN s |-> <<k, s[k]>>]
        kept == SelectSeq(numbered, LAMBDA p : p[1] \in keep)
    IN  [i \in DOMAIN kept |-> kept[i][2]]

\* s.replace(/https?:\/\//g, ""): no two matches overlap, so the characters
\* removed are those covered by a match at any position
RemoveSchemes(s) ==
    LET Matches(w) == {a \in DOMAIN s :
                          a + Len(w) - 1 <= Len(s) /\ SubSeq(s, a, a + Len(w) - 1) = w}
        Covered(w) == UNION {a..(a + Len(w) - 1) : a \in Matches(w)}
    IN  Pick(s, DOMAIN s \ (Covered(HttpScheme) \cup Covered(HttpsScheme)))

\* s.replace(/[^a-z0-9]+/g, "-"): every run of other characters becomes one "-"
Hyphenate(s) ==
    LET keep == {k \in DOMAIN s :
                    \/ IsSlugChar(s[k])
                    \/ k = Len(s)
                    \/ IsSlugChar(s[k + 1])}
        t == Pick(s, keep)
    IN  [i \in DOMAIN t |-> IF IsSlugChar(t[i]) THEN t[i] ELSE "-"]

\* s.replace(/^-+|-+$/g, "")
StripHyphens(s) ==
    LET keep == {k \in DOMAIN s : s[k] # "-"}
    IN  IF keep = {} THEN <<>>
        ELSE SubSeq(s, CHOOSE a \in keep : \A b \in keep : a <= b,
                       CHOOSE a \in keep : \A b \in keep : a >= b)

SlugMaxLen == 60

\* a slug that skips the lower-casing
slugifyKeepsCase(input) ==
    LET s == StripHyphens(Hyphenate(RemoveSchemes(input)))
    IN  SubSeq(s, 1, IF Len(s) < SlugMaxLen THEN Len(s) ELSE SlugMaxLen)

\* slugify(input), with the default maxLen
slugify(input) ==
    LET s == StripHyphens(Hyphenate(RemoveSchemes(toLowerCase(input))))
    IN  SubSeq(s, 1, IF Len(s) < SlugMaxLen THEN Len(s) ELSE SlugMaxLen)

\* a capture tagged with the query as it is
CaptureUnslugged(stepIndex, step, shot) ==
    [ordinal |-> stepIndex, name |-> step.name, query |-> step.query,
     slug |-> step.query, saved |-> (shot = "ok")]

\* captureStepScreenshot(stepIndex, step): the request (the file name holds the
\* ordinal, the step's name and the slug of its query), and whether
\* page.screenshot resolved (saved) or threw (the function returns null)
Capture(stepIndex, step, shot) ==
    [ordinal |-> stepIndex, name |-> step.name, query |-> step.query,
     slug |-> slugify(step.query), saved |-> (shot = "ok")]

\* const outputs = []; await fs.mkdir(this.screenshotDir, { recursive: true })
ExecStart(mk) ==
    /\ xstate = "idle"
    /\ IF mk = "ok"
       THEN /\ xstate' = IF 0 < Len(xplan) THEN "invoke" ELSE "returned"
            /\ UNCHANGED xerror
       ELSE /\ xstate' = "rejected"
            /\ xerror' = Err("mkdir")
    /\ UNCHANGED <<xplan, xi, outputs, captures, invocations, pageVersion>>
    /\ UNCHANGED <<state, iter, messages, cache, clearCacheBeforeNextRead, msg, toolCalls,
                   tc, planResult, planError, requests, fnVars, appVars>>

\* an executor that lets a provider rejection escape
ExecInvokeAborts(outcome) ==
    /\ xstate = "invoke"
    /\ LET step == xplan[xi + 1] IN
       /\ outputs' = Append(outputs,
                            invokeStagehand(step.name, step.query, outcome, pageVersion))
       /\ invocations' = Append(invocations,
                                Invocation(step.name, step.query, outcome, pageVersion,
                                           StepCaller(xi + 1)))
       /\ pageVersion' = IF step.name = act THEN pageVersion + 1 ELSE pageVersion
    /\ xstate' = IF outcome = "ok" THEN "capture" ELSE "rejected"
    /\ xerror' = IF outcome = "ok" THEN xerror ELSE Err(outcome)
    /\ UNCHANGED <<xplan, xi, captures>>
    /\ UNCHANGED <<state, iter, messages, cache, clearCacheBeforeNextRead, msg, toolCalls,
                   tc, planResult, planError, requests, fnVars, appVars>>

\* an executor that records no output for a failed step
ExecInvokeSkips(outcome) ==
    /\ xstate = "invoke"
    /\ LET step == xplan[xi + 1] IN
       /\ outputs' = IF outcome = "ok"
                     THEN Append(outputs,
                            invokeStagehand(step.name, step.query, outcome, pageVersion))
                     ELSE outputs
       /\ invocations' = Append(invocations,
                                Invocation(step.name, step.query, outcome, pageVersion,
                                           StepCaller(xi + 1)))
       /\ pageVersion' = IF step.name = act THEN pageVersion + 1 ELSE pageVersion
    /\ xstate' = "capture"
    /\ UNCHANGED <<xplan, xi, xerror, captures>>
    /\ UNCHANGED <<state, iter, messages, cache, clearCacheBeforeNextRead, msg, toolCalls,
                   tc, planResult, planError, requests, fnVars, appVars>>

\* an executor that invokes a step's capability a second time when it fails
ExecInvokeRetries(outcome) ==
    /\ xstate = "invoke"
    /\ LET step == xplan[xi + 1]
           call == Invocation(step.name, step.query, outcome, pageVersion,
                              StepCaller(xi + 1))
       IN
       /\ outputs' = Append(outputs,
                            invokeStagehand(step.name, step.query, outcome, pageVersion))
       /\ invocations' = IF outcome = "ok" THEN Append(invocations, call)
                         ELSE invocations \o <<call, call>>
       /\ pageVersion' = IF step.name = act THEN pageVersion + 1 ELSE pageVersion
    /\ xstate' = "capture"
    /\ UNCHANGED <<xplan, xi, xerror, captures>>
    /\ UNCHANGED <<state, iter, messages, cache, clearCacheBeforeNextRead, msg, toolCalls,
                   tc, planResult, planError, requests, fnVars, appVars>>

\* const res = await this.invokeStagehand(step.name, step.query); outputs.push(res)
ExecInvoke(outcome) ==
    /\ xstate = "invoke"
    /\ LET step == xplan[xi + 1] IN
       /\ outputs' = Append(outputs,
                            invokeStagehand(step.name, step.query, outcome, pageVersion))
       /\ invocations' = Append(invocations,
                                Invocation(step.name, step.query, outcome, pageVersion,
                                           StepCaller(xi + 1)))
       /\ pageVersion' = IF step.name = act THEN pageVersion + 1 ELSE pageVersion
    /\ xstate' = "capture"
    /\ UNCHANGED <<xplan, xi, xerror, captures>>
    /\ UNCHANGED <<state, iter, messages, cache, clearCacheBeforeNextRead, msg, toolCalls,
                   tc, planResult, planError, requests, fnVars, appVars>>

\* an executor that lets a failed screenshot escape
ExecCaptureAborts(shot) ==
    /\ xstate = "capture"
    /\ captures' = Append(captures, Capture(xi + 1, xplan[xi + 1], shot))
    /\ xi' = xi + 1
    /\ xstate' = IF shot # "ok" THEN "rejected"
                 ELSE IF xi + 1 < Len(xplan) THEN "invoke" ELSE "returned"
    /\ xerror' = IF shot # "ok" THEN Err("screenshot") ELSE xerror
    /\ UNCHANGED <<xplan, outputs, invocations, pageVersion>>
    /\ UNCHANGED <<state, iter, messages, cache, clearCacheBeforeNextRead, msg, toolCalls,
                   tc, planResult, planError, requests, fnVars, appVars>>

\* const saved = await this.captureStepScreenshot(i + 1, step); i++; the loop
\* test; return outputs
ExecCapture(shot) ==
    /\ xstate = "capture"
    /\ captures' = Append(captures, Capture(xi + 1, xplan[xi + 1], shot))
    /\ xi' = xi + 1
    /\ xstate' = IF xi + 1 < Len(xplan) THEN "invoke" ELSE "returned"
    /\ UNCHANGED <<xplan, outputs, xerror, invocations, pageVersion>>
    /\ UNCHANGED <<state, iter, messages, cache, clearCacheBeforeNextRead, msg, toolCalls,
                   tc, planResult, planError, requests, fnVars, appVars>>

-----------------------------------------------------------------------------
(* Inputs: the answers of the completion provider and the plans handed to  *)
(* execute, drawn from small sets.                                         *)

q1 == <<"q","1">>
q2 == <<"q","2">>
Queries == {q1, q2}

\* function.name and function.arguments of a tool call, before its id
Shape(name, arguments) == [name |-> name, arguments |-> arguments]
Cap(name, query) == Shape(Str(name), Parsed(Obj(Undefined, Str(query))))
Bogus == Shape(Str(<<"c","l","i","c","k">>), Parsed(Obj(Undefined, Str(q1))))
Malformed == Shape(Str(observe), Unparsed)
BogusMalformed == Shape(Str(<<"c","l","i","c","k">>), Unparsed)
Finalize(raw) == Shape(Str(finalize_plan), Parsed(raw))

GoodRaw == Obj(Arr(<< RawStep(Str(act), Str(q1)),
                      RawStep(Str(<<"W","a","i","t"," ","f","o","r">>), Str(q2)),
                      RawStep(Str(extract), Str(q1)) >>), Undefined)
EmptyRaw == Obj(Arr(<<>>), Undefined)
BadStepRaw == Obj(Arr(<< RawStep(Str(act), Str(q1)),
                         RawStep(Str(<<"l","o","o","k">>), Str(q2)) >>), Undefined)
BadShapeRaw == Obj(Undefined, Str(q1))

\* the tool calls of one message: the shapes, with ids unique in the session
WithIds(shapes, r) ==
    [j \in DOMAIN shapes |-> ToolCall(<<r, j>>, shapes[j].name, shapes[j].arguments)]

SeqsUpTo(S, n) == UNION {[1..k -> S] : k \in 1..n}

Json(id, raw) == Text(id, FALSE, Parsed(raw), FALSE, Unparsed)
Fenced(id, raw) == Text(id, FALSE, Unparsed, TRUE, Parsed(raw))
Prose == Text("prose", FALSE, Unparsed, FALSE, Unparsed)
BadFence == Text("fence with prose", FALSE, Unparsed, TRUE, Unparsed)
Blank == Text("  ", TRUE, Unparsed, FALSE, Unparsed)

\* messages that end the negotiation on the fallback path, or that are no message
FinalTexts == { Json("plan", GoodRaw), Fenced("fenced plan", GoodRaw),
                Json("bad plan", BadStepRaw), Prose, BadFence }
\* messages without tool calls and without text
IdleContents == { JsNull, EmptyString, Blank }

RECURSIVE CallsIssued(_)
\* the tool calls and idle messages the completion provider has sent so far
CallsIssued(ms) ==
    IF ms = <<>> THEN 0
    ELSE CallsIssued(Tail(ms)) +
         (IF Head(ms).role # "assistant" THEN 0
          ELSE IF "tool_calls" \in DOMAIN Head(ms) THEN Len(Head(ms).tool_calls)
          ELSE 1)

RECURSIVE BusyRounds(_)
\* the rounds with tool calls so far
BusyRounds(ms) ==
    IF ms = <<>> THEN 0
    ELSE BusyRounds(Tail(ms)) +
         (IF Head(ms).role = "assistant" /\ "tool_calls" \in DOMAIN Head(ms) THEN 1 ELSE 0)

MaxCalls == 3
MaxBusyRounds == 2
MaxPlanLen == 3

PlanShapes == { Cap(observe, q1), Cap(observe, q2), Cap(extract, q1), Cap(act, q1),
                Bogus, Malformed, Finalize(GoodRaw), Finalize(BadStepRaw) }

\* SpecPlan: any answer, as long as the session has at most MaxCalls tool calls
\* and idle messages
PlanMsgs ==
    LET left == MaxCalls - CallsIssued(messages) IN
    {NoMessage} \cup {Message(t, <<>>) : t \in FinalTexts}
    \cup (IF left > 0 THEN {Message(t, <<>>) : t \in IdleContents} ELSE {})
    \cup {Message(JsNull, WithIds(c, requests + 1)) : c \in SeqsUpTo(PlanShapes, left)}

BudgetShapes == { Cap(<<"O","b","s","e","r","v","e">>, q1), Cap(act, q1), Bogus }

\* SpecBudget: idle messages in any round, and at most MaxBusyRounds rounds of
\* one tool call
BudgetMsgs ==
    {Message(JsNull, <<>>), Message(Prose, <<>>),
     Message(JsNull, WithIds(<<Finalize(EmptyRaw)>>, requests + 1)),
     Message(JsNull, WithIds(<<Finalize(BadShapeRaw)>>, requests + 1)),
     Message(JsNull, WithIds(<<BogusMalformed>>, requests + 1))}
    \cup (IF BusyRounds(messages) < MaxBusyRounds
          THEN {Message(JsNull, WithIds(<<c>>, requests + 1)) : c \in BudgetShapes}
          ELSE {})

\* 'Go to https://X.com/News!'
UrlQuery ==
    <<"G","o"," ","t","o"," ","h","t","t","p","s",":","/","/","X",".","c","o","m","/",
      "N","e","w","s","!">>
\* 'go-to-x-com-news'
UrlSlug ==
    <<"g","o","-","t","o","-","x","-","c","o","m","-","n","e","w","s">>
\* a query whose slug is longer than 60 characters
LongQuery ==
    <<"E","x","t","r","a","c","t"," ","t","h","e"," ","t","o","p"," ","h","e","a","d",
      "i","n","g"," ","a","n","d"," ","t","h","e"," ","f","i","r","s","t"," ","p","a",
      "r","a","g","r","a","p","h"," ","o","f"," ","t","h","e"," ","a","r","t","i","c",
      "l","e"," ","p","a","g","e"," ","n","o","w">>
\* the first 60 characters of LongQuery's slug
LongSlug ==
    <<"e","x","t","r","a","c","t","-","t","h","e","-","t","o","p","-","h","e","a","d",
      "i","n","g","-","a","n","d","-","t","h","e","-","f","i","r","s","t","-","p","a",
      "r","a","g","r","a","p","h","-","o","f","-","t","h","e","-","a","r","t","i","c">>

\* the steps of the plans handed to execute: one query per kind
ExecSteps == { [name |-> act, query |-> UrlQuery], [name |-> observe, query |-> q1],
               [name |-> extract, query |-> LongQuery] }
ExecPlans == {<<>>} \cup SeqsUpTo(ExecSteps, MaxPlanLen)

-----------------------------------------------------------------------------

InitPlanVars ==
    /\ state = "Negotiating"
    /\ iter = 0
    /\ messages = <<SystemEntry, UserEntry>>
    /\ cache = <<>>
    /\ clearCacheBeforeNextRead = FALSE
    /\ msg = NoMessage
    /\ toolCalls = <<>>
    /\ tc = NoCall
    /\ planResult = NoPlan
    /\ planError = NoError
    /\ requests = 0
    /\ invocations = <<>>
    /\ pageVersion = 0

InitExecVars(plans) ==
    /\ xstate = "idle"
    /\ xplan \in plans
    /\ xi = 0
    /\ outputs = <<>>
    /\ xerror = NoError
    /\ captures = <<>>

\* executeWebTask has returned nothing yet; no response has been sent
NoResult == [done |-> FALSE]
NoResponse == [sent |-> FALSE]

\* let browser; let page: Page;  and a request not yet answered
InitTaskVars ==
    /\ browser = "none"
    /\ page = "none"
    /\ taskResult = NoResult
    /\ response = NoResponse

\* private retryCount = 0, on a client that has made no request
InitClientVars ==
    /\ retryCount = 0
    /\ reqs = <<>>

\* const initialState: AppState = { ... }
InitialStateObject ==
    [currentQuery |-> Str(<<>>), currentJobId |-> JsNull, isLoading |-> FALSE,
     history |-> <<>>, progressUpdates |-> <<>>, error |-> JsNull]

ArrayFields == {"history", "progressUpdates"}

\* an array the store holds: its items, and whether it is the very array
\* object that initialState holds
ArrayRef(shared, items) == [shared |-> shared, items |-> items]

\* the state a store holds after set(initial): the fields of initial, the
\* arrays by reference
StateFrom(initial) ==
    [f \in DOMAIN initial |->
        IF f \in ArrayFields THEN ArrayRef(TRUE, initial[f]) ELSE initial[f]]

\* create<AppStore>()(... ({ ...initialState, ... }))
InitStoreVars ==
    /\ initialState = InitialStateObject
    /\ appState = StateFrom(InitialStateObject)
    /\ lastAction = "create"
    /\ dirty = {}

\* no plan() call has been made
InitSessionVars == sessions = <<>>

\* the app opens on the Home screen: useState('') / useState(false) /
\* useState('text'), a mode nothing changes; no Result screen is mounted
InitScreenVars ==
    screens = [route |-> "Home", query |-> <<>>, mode |-> "text", loading |-> FALSE,
               historyId |-> 0, apiError |-> FALSE, jobId |-> <<>>, interval |-> FALSE,
               isCompleted |-> FALSE, status |-> "Processing...",
               submissions |-> <<>>]

InitAppVars ==
    InitTaskVars /\ InitClientVars /\ InitStoreVars /\ InitSessionVars /\ InitScreenVars

\* no helper call under study
NoFnCall == [fn |-> "none"]
NoReturn == [done |-> FALSE]
Returns(v) == [done |-> TRUE, value |-> v]

InitFnVars ==
    /\ fnCall = NoFnCall
    /\ fnRet = NoReturn

\* plan(task) on a fresh PageNavigator
Init == InitPlanVars /\ InitExecVars({<<>>}) /\ InitFnVars /\ InitAppVars

Next ==
    \/ \E m \in PlanMsgs : RequestCompletion(m)
    \/ \E outcome \in Outcomes : ProcessToolCall(outcome)

SpecPlan == Init /\ [][Next]_vars

NextBudget ==
    \/ \E m \in BudgetMsgs : RequestCompletion(m)
    \/ \E outcome \in Outcomes : ProcessToolCall(outcome)

SpecBudget == Init /\ [][NextBudget]_vars

\* execute(plan) on a fresh PageNavigator
InitExec == InitPlanVars /\ InitExecVars(ExecPlans) /\ InitFnVars /\ InitAppVars

NextExec ==
    \/ \E mk \in {"ok", "fail"} : ExecStart(mk)
    \/ \E outcome \in Outcomes : ExecInvoke(outcome)
    \/ \E shot \in {"ok", "fail"} : ExecCapture(shot)

SpecExec == InitExec /\ [][NextExec]_vars

-----------------------------------------------------------------------------
(* The helper functions on their own: the call is drawn from a bounded set *)
(* of arguments and the one step applies the function.                     *)

MaxRawLen == 2

\* the name and query fields a raw plan step can carry
RawNames == { Str(observe), Str(<<"W","a","i","t"," ","f","o","r">>),
              Str(<<"l","o","o","k">>), JsNumber, Undefined }
RawQueries == { Str(q1), Str(<<>>), JsNumber, Undefined }
\* the elements of a raw plan array: objects, and values that are no objects
RawSteps == {JsNull, JsNumber} \cup {RawStep(n, q) : n \in RawNames, q \in RawQueries}

\* what validatePlan can be handed: JSON.parse of the finalize_plan arguments
\* or of the text
RawInputs ==
    {JsNull, JsNumber, Str(q1), Arr(<<>>), Obj(Undefined, Str(q1)), Obj(Str(q1), Undefined)}
    \cup {Obj(Arr(items), Undefined) : items \in {<<>>} \cup SeqsUpTo(RawSteps, MaxRawLen)}

InitValidate ==
    /\ InitPlanVars /\ InitExecVars({<<>>}) /\ InitAppVars
    /\ fnCall \in {[fn |-> "validatePlan", raw |-> raw] : raw \in RawInputs}
    /\ fnRet = NoReturn

\* validatePlan(raw): the Plan returned or the error thrown
CallValidatePlan ==
    /\ fnCall.fn = "validatePlan"
    /\ ~fnRet.done
    /\ fnRet' = Returns(validatePlan(fnCall.raw))
    /\ UNCHANGED <<fnCall, planVars, execVars, appVars>>

NextValidate == CallValidatePlan

SpecValidate == InitValidate /\ [][NextValidate]_vars

MaxTokens == 2

\* pieces of step names: keywords of each rule, canonical names, filler
NameTokens == { <<"w","a","i","t">>, <<"C","h","e","c","k">>, <<"c","l","i","c","k">>,
                <<"g","e","t">>, <<" ">>, <<"x">>, observe, act,
                <<"E","X","T","R","A","C","T">> }

RECURSIVE Concat(_)
Concat(ts) == IF ts = <<>> THEN <<>> ELSE Head(ts) \o Concat(Tail(ts))

\* the names normalizeCommandName is applied to
NameInputs == {Concat(ts) : ts \in {<<>>} \cup SeqsUpTo(NameTokens, MaxTokens)}

InitNormalize ==
    /\ InitPlanVars /\ InitExecVars({<<>>}) /\ InitAppVars
    /\ fnCall \in {[fn |-> "normalizeCommandName", name |-> n] : n \in NameInputs}
    /\ fnRet = NoReturn

\* normalizeCommandName(name): the canonical name, or Null
CallNormalizeCommandName ==
    /\ fnCall.fn = "normalizeCommandName"
    /\ ~fnRet.done
    /\ fnRet' = Returns(normalizeCommandName(fnCall.name))
    /\ UNCHANGED <<fnCall, planVars, execVars, appVars>>

NextNormalize == CallNormalizeCommandName

SpecNormalize == InitNormalize /\ [][NextNormalize]_vars

-----------------------------------------------------------------------------
(* extractFinalOutput (src/BatonCore/web-automation.ts): the result        *)
(* synthesizer that executeWebTask applies to the plan and its outputs.    *)

MinOf(S) == CHOOSE a \in S : \A b \in S : a <= b
MaxOf(S) == CHOOSE a \in S : \A b \in S : a >= b

\* s without its first n characters
Drop(s, n) == SubSeq(s, n + 1, Len(s))

\* s without what /^\s*/ matches
SkipSpaces(s) ==
    LET ks == {k \in DOMAIN s : ~IsSpace(s[k])}
    IN  IF ks = {} THEN <<>> ELSE Drop(s, MinOf(ks) - 1)

\* s.replace(/^lit\s*/, '')
StripPrefix(s, lit) ==
    IF StartsWith(s, lit) THEN SkipSpaces(Drop(s, Len(lit))) ELSE s

\* 'EXTRACTED('
ExtractedOpen ==
    <<"E","X","T","R","A","C","T","E","D","(">>
\* '=>'
Arrow ==
    <<"=",">">>
\* 'Found text content:'
FoundTextContent ==
    <<"F","o","u","n","d"," ","t","e","x","t"," ","c","o","n","t","e","n","t",":">>
\* 'Headline:'
Headline ==
    <<"H","e","a","d","l","i","n","e",":">>
\* 'Current temperature:'
CurrentTemperature ==
    <<"C","u","r","r","e","n","t"," ","t","e","m","p","e","r","a","t","u","r","e",":">>
\* 'High/Low temperatures:'
HighLowTemperatures ==
    <<"H","i","g","h","/","L","o","w"," ","t","e","m","p","e","r","a","t","u","r","e",
      "s",":">>
\* '(not found'
NotFoundMarker ==
    <<"(","n","o","t"," ","f","o","u","n","d">>
\* 'NAVIGATED('
NavigatedMarker ==
    <<"N","A","V","I","G","A","T","E","D","(">>
\* 'ACTION_OK'
ActionOk ==
    <<"A","C","T","I","O","N","_","O","K">>
\* 'Observed:'
ObservedEcho ==
    <<"O","b","s","e","r","v","e","d",":">>
\* 'Task completed successfully - no specific content extracted'
FallbackSentence ==
    <<"T","a","s","k"," ","c","o","m","p","l","e","t","e","d"," ","s","u","c","c","e",
      "s","s","f","u","l","l","y"," ","-"," ","n","o"," ","s","p","e","c","i","f","i",
      "c"," ","c","o","n","t","e","n","t"," ","e","x","t","r","a","c","t","e","d">>

\* s.replace(/^EXTRACTED\([^)]+\)\s*=>\s*/, ''): the parenthesis holds at least
\* one character and ends at the first ")"
StripExtracted(s) ==
    IF ~StartsWith(s, ExtractedOpen) THEN s
    ELSE LET rest == Drop(s, Len(ExtractedOpen))
             closes == {k \in DOMAIN rest : rest[k] = ")"}
         IN  IF closes = {} \/ MinOf(closes \cup {Len(rest) + 1}) < 2 THEN s
             ELSE LET after == SkipSpaces(Drop(rest, MinOf(closes)))
                  IN  IF StartsWith(after, Arrow)
                      THEN SkipSpaces(Drop(after, Len(Arrow)))
                      ELSE s

\* "Remove common technical prefixes": the five replacements in their order,
\* then trim
CleanOutput(output) ==
    trim(StripPrefix(StripPrefix(StripPrefix(StripPrefix(StripExtracted(output),
            FoundTextContent), Headline), CurrentTemperature), HighLowTemperatures))

MinCleanLength == 10
MinOutputLength == 20

\* cleanOutput && cleanOutput.length > 10 && !cleanOutput.includes('(not found')
IsMeaningfulContent(cleanOutput) ==
    /\ cleanOutput # <<>>
    /\ Len(cleanOutput) > MinCleanLength
    /\ ~Contains(cleanOutput, NotFoundMarker)

\* the filter of meaningfulOutputs
IsMeaningfulOutput(output) ==
    \/ Contains(output, NavigatedMarker)
    \/ /\ Len(output) > MinOutputLength
       /\ ~Contains(output, ActionOk)
       /\ ~Contains(output, ObservedEcho)

\* a synthesizer that returns the extract output as it is
extractFinalOutputUncleaned(plan, outs) ==
    LET extractSteps == {k \in DOMAIN plan : plan[k].name = extract}
        meaningfulOutputs == {k \in DOMAIN outs : IsMeaningfulOutput(outs[k])}
    IN  IF /\ extractSteps # {}
           /\ IsMeaningfulContent(CleanOutput(outs[MaxOf(extractSteps)]))
        THEN outs[MaxOf(extractSteps)]
        ELSE IF meaningfulOutputs # {} THEN outs[MaxOf(meaningfulOutputs)]
        ELSE FallbackSentence

\* a synthesizer that falls back to the first candidate output
extractFinalOutputFirstCandidate(plan, outs) ==
    LET extractSteps == {k \in DOMAIN plan : plan[k].name = extract}
        meaningfulOutputs == {k \in DOMAIN outs : IsMeaningfulOutput(outs[k])}
    IN  IF /\ extractSteps # {}
           /\ IsMeaningfulContent(CleanOutput(outs[MaxOf(extractSteps)]))
        THEN CleanOutput(outs[MaxOf(extractSteps)])
        ELSE IF meaningfulOutputs # {} THEN outs[MinOf(meaningfulOutputs)]
        ELSE FallbackSentence

\* extractFinalOutput(plan, outputs): only extractSteps[0], the last extract
\* step of the plan, is looked at before the fallback
extractFinalOutput(plan, outs) ==
    LET extractSteps == {k \in DOMAIN plan : plan[k].name = extract}
        meaningfulOutputs == {k \in DOMAIN outs : IsMeaningfulOutput(outs[k])}
    IN  IF /\ extractSteps # {}
           /\ IsMeaningfulContent(CleanOutput(outs[MaxOf(extractSteps)]))
        THEN CleanOutput(outs[MaxOf(extractSteps)])
        ELSE IF meaningfulOutputs # {} THEN outs[MaxOf(meaningfulOutputs)]
        ELSE FallbackSentence

(* Outputs of plan steps, as the provider of web-automation.ts words them.  *)

\* 'EXTRACTED(h1) => Breaking news'
BreakingNewsOutput ==
    <<"E","X","T","R","A","C","T","E","D","(","h","1",")"," ","=",">"," ","B","r","e",
      "a","k","i","n","g"," ","n","e","w","s">>
\* 'Headline: Top story!'
TenCharOutput ==
    <<"H","e","a","d","l","i","n","e",":"," ","T","o","p"," ","s","t","o","r","y","!">>
\* 'EXTRACTED(h1) => (not found)'
NotFoundOutput ==
    <<"E","X","T","R","A","C","T","E","D","(","h","1",")"," ","=",">"," ","(","n","o",
      "t"," ","f","o","u","n","d",")">>
\* 'Found text content: Headline: Latest update'
ChainedOutput ==
    <<"F","o","u","n","d"," ","t","e","x","t"," ","c","o","n","t","e","n","t",":"," ",
      "H","e","a","d","l","i","n","e",":"," ","L","a","t","e","s","t"," ","u","p","d",
      "a","t","e">>
\* 'NAVIGATED(x.com)'
NavigatedOutput ==
    <<"N","A","V","I","G","A","T","E","D","(","x",".","c","o","m",")">>
\* 'ACTION_OK clicked the button'
ActionOutput ==
    <<"A","C","T","I","O","N","_","O","K"," ","c","l","i","c","k","e","d"," ","t","h",
      "e"," ","b","u","t","t","o","n">>
\* 'Observed: results are visible'
ObservedOutput ==
    <<"O","b","s","e","r","v","e","d",":"," ","r","e","s","u","l","t","s"," ","a","r",
      "e"," ","v","i","s","i","b","l","e">>
\* 'CLICKED_LINK_TEXT(Top stories)'
ClickedOutput ==
    <<"C","L","I","C","K","E","D","_","L","I","N","K","_","T","E","X","T","(","T","o",
      "p"," ","s","t","o","r","i","e","s",")">>
\* '{"error":"timeout"}'
ErrorOutput ==
    <<"{","\"","e","r","r","o","r","\"",":","\"","t","i","m","e","o","u","t","\"","}">>
\* 'Breaking news'
BreakingNews ==
    <<"B","r","e","a","k","i","n","g"," ","n","e","w","s">>
\* 'Latest update'
LatestUpdate ==
    <<"L","a","t","e","s","t"," ","u","p","d","a","t","e">>

MaxSynthLen == 3

\* a plan step's kind with an output of that kind of step
SynthSteps ==
    {<<extract, o>> : o \in {BreakingNewsOutput, TenCharOutput, NotFoundOutput,
                             ChainedOutput, ClickedOutput}}
    \cup {<<act, o>> : o \in {NavigatedOutput, ActionOutput, ClickedOutput, ErrorOutput}}
    \cup {<<observe, o>> : o \in {ObservedOutput, <<>>}}

\* plans with their outputs: outputs has one string per plan step
SynthCalls ==
    {[fn |-> "extractFinalOutput",
      plan |-> [k \in DOMAIN run |-> [name |-> run[k][1], query |-> q1]],
      outputs |-> [k \in DOMAIN run |-> run[k][2]]] :
        run \in {<<>>} \cup SeqsUpTo(SynthSteps, MaxSynthLen)}

InitSynthesize ==
    /\ InitPlanVars /\ InitExecVars({<<>>}) /\ InitAppVars
    /\ fnCall \in SynthCalls
    /\ fnRet = NoReturn

\* const finalOutput = extractFinalOutput(plan, outputs)
CallExtractFinalOutput ==
    /\ fnCall.fn = "extractFinalOutput"
    /\ ~fnRet.done
    /\ fnRet' = Returns(extractFinalOutput(fnCall.plan, fnCall.outputs))
    /\ UNCHANGED <<fnCall, planVars, execVars, appVars>>

NextSynthesize == CallExtractFinalOutput

SpecSynthesize == InitSynthesize /\ [][NextSynthesize]_vars

-----------------------------------------------------------------------------
(* executeWebTask (src/BatonCore/web-automation.ts): navigate(task), that   *)
(* is plan then execute, followed by extractFinalOutput; and the handler of *)
(* POST /api/execute that calls it.                                         *)

\* the completions of a task: finalize_plan with no step or with three, text
\* that is no plan, and at most MaxBusyRounds rounds of one capability call
TaskMsgs ==
    {Message(Prose, <<>>),
     Message(JsNull, WithIds(<<Finalize(EmptyRaw)>>, requests + 1)),
     Message(JsNull, WithIds(<<Finalize(GoodRaw)>>, requests + 1))}
    \cup (IF BusyRounds(messages) < MaxBusyRounds
          THEN {Message(JsNull, WithIds(<<c>>, requests + 1)) :
                   c \in {Cap(observe, q1), Cap(act, q1)}}
          ELSE {})

\* the strings the provider's results can be
TaskTexts == {BreakingNewsOutput, NavigatedOutput}

\* the outputs of execute as strings: an error payload is the JSON text of
\* invokeStagehand's catch block, a result is any of the provider's strings
Renderings(outs) ==
    {t \in [DOMAIN outs -> TaskTexts \cup {ErrorOutput}] :
        \A k \in DOMAIN outs : ("error" \in DOMAIN outs[k]) <=> (t[k] = ErrorOutput)}

\* POST /api/execute has arrived; nothing is open, plan() and execute() have
\* not started
InitTask ==
    /\ InitPlanVars
    /\ xstate = "unstarted"
    /\ xplan = <<>>
    /\ xi = 0
    /\ outputs = <<>>
    /\ xerror = NoError
    /\ captures = <<>>
    /\ InitFnVars
    /\ InitAppVars

\* const plan = await this.plan(task); const outputs = await this.execute(plan)
NavigateExecute ==
    /\ state = "Finalized"
    /\ xstate = "unstarted"
    /\ xplan' = planResult.plan
    /\ xstate' = "idle"
    /\ UNCHANGED <<xi, outputs, xerror, captures, planVars, fnVars, appVars>>

\* what navigate(task) has settled to: it rejects with what plan() or
\* execute() rejected with, and returns { plan, outputs } otherwise
NavigateOutcome ==
    IF state \in {"Failed", "Exhausted"}
    THEN [status |-> "rejected", error |-> planError]
    ELSE IF xstate = "rejected"
    THEN [status |-> "rejected", error |-> xerror]
    ELSE IF xstate = "returned"
    THEN [status |-> "returned", plan |-> xplan, outputs |-> outputs]
    ELSE [status |-> "pending"]

\* what the setup of executeWebTask can end with: the client, the browser
\* and the page are there, or the API key is missing, or chromium.launch or
\* browser.newPage rejected
SetupOutcomes == {"ok", "OPENAI_API_KEY", "launch", "newPage"}

\* `debug_screenshots/${String(i + 1).padStart(2, '0')}-*.jpg`
ScreenshotPattern(ordinal) ==
    [dir |-> "debug_screenshots", ordinal |-> ordinal, rest |-> "*", ext |-> "jpg"]

\* { success: true, plan, outputs, screenshots, output: finalOutput }
Success(plan, outs, finalOutput) ==
    [done |-> TRUE, success |-> TRUE, plan |-> plan, outputs |-> outs,
     screenshots |-> [i \in DOMAIN plan |-> ScreenshotPattern(i)],
     output |-> finalOutput]

\* { success: false, plan: [], outputs: [], screenshots: [], output: undefined,
\*   error: error.message }
Failure(error) ==
    [done |-> TRUE, success |-> FALSE, plan |-> <<>>, outputs |-> <<>>,
     screenshots |-> <<>>, output |-> Undefined, error |-> error]

\* POST /api/execute with a prompt that is missing or no string: status 400
RejectPrompt ==
    /\ response = NoResponse
    /\ browser = "none"
    /\ taskResult = NoResult
    /\ response' = [sent |-> TRUE, status |-> 400,
                    body |-> [error |-> "Missing or invalid prompt"]]
    /\ UNCHANGED <<browser, page, taskResult>>
    /\ UNCHANGED <<planVars, execVars, fnVars, clientVars, storeVars, sessionVars, screenVars>>

\* executeWebTask(userPrompt) up to the call of navigate: when the setup
\* throws, the catch block returns the failure and the finally block closes
\* what was opened
TaskStart(setup) ==
    /\ response = NoResponse
    /\ browser = "none"
    /\ taskResult = NoResult
    /\ IF setup = "ok"
       THEN /\ browser' = "open"
            /\ page' = "open"
            /\ UNCHANGED taskResult
       ELSE /\ taskResult' = Failure(Err(setup))
            /\ browser' = IF setup = "newPage" THEN "closed" ELSE "none"
            /\ UNCHANGED page
    /\ UNCHANGED response
    /\ UNCHANGED <<planVars, execVars, fnVars, clientVars, storeVars, sessionVars, screenVars>>

\* a catch block that leaves the page and the browser open
TaskCatchLeaks ==
    /\ page = "open"
    /\ taskResult = NoResult
    /\ NavigateOutcome.status = "rejected"
    /\ taskResult' = Failure(NavigateOutcome.error)
    /\ UNCHANGED <<browser, page, response>>
    /\ UNCHANGED <<planVars, execVars, fnVars, clientVars, storeVars, sessionVars, screenVars>>

\* navigate rejected: catch (error) { return { success: false, ... } } finally
\* { page.close(); browser.close() }
TaskCatch ==
    /\ page = "open"
    /\ taskResult = NoResult
    /\ NavigateOutcome.status = "rejected"
    /\ taskResult' = Failure(NavigateOutcome.error)
    /\ page' = "closed"
    /\ browser' = "closed"
    /\ UNCHANGED response
    /\ UNCHANGED <<planVars, execVars, fnVars, clientVars, storeVars, sessionVars, screenVars>>

\* navigate returned: const screenshots = plan.map(...); const finalOutput =
\* extractFinalOutput(plan, outputs); return { success: true, ... } finally
\* { page.close(); browser.close() }
Synthesize(texts) ==
    /\ page = "open"
    /\ taskResult = NoResult
    /\ xstate = "returned"
    /\ fnCall' = [fn |-> "extractFinalOutput", plan |-> xplan, outputs |-> texts]
    /\ fnRet' = Returns(extractFinalOutput(xplan, texts))
    /\ taskResult' = Success(xplan, texts, extractFinalOutput(xplan, texts))
    /\ page' = "closed"
    /\ browser' = "closed"
    /\ UNCHANGED response
    /\ UNCHANGED <<planVars, execVars, clientVars, storeVars, sessionVars, screenVars>>

\* const result = await executeWebTask(prompt); res.json({ success: true,
\* prompt, result })
Respond ==
    /\ response = NoResponse
    /\ taskResult # NoResult
    /\ response' = [sent |-> TRUE, status |-> 200,
                    body |-> [success |-> TRUE, result |-> taskResult]]
    /\ UNCHANGED <<browser, page, taskResult>>
    /\ UNCHANGED <<planVars, execVars, fnVars, clientVars, storeVars, sessionVars, screenVars>>

NextTask ==
    \/ RejectPrompt
    \/ \E setup \in SetupOutcomes : TaskStart(setup)
    \/ \E m \in TaskMsgs : page = "open" /\ RequestCompletion(m)
    \/ \E outcome \in Outcomes : page = "open" /\ ProcessToolCall(outcome)
    \/ page = "open" /\ NavigateExecute
    \/ \E mk \in {"ok", "fail"} : page = "open" /\ ExecStart(mk)
    \/ \E outcome \in Outcomes : page = "open" /\ ExecInvoke(outcome)
    \/ \E shot \in {"ok", "fail"} : page = "open" /\ ExecCapture(shot)
    \/ TaskCatch
    \/ \E texts \in Renderings(outputs) : Synthesize(texts)
    \/ Respond

SpecTask == InitTask /\ [][NextTask]_vars

-----------------------------------------------------------------------------
(* ApiClient (src/orch-app/src/navigation/index.tsx): the retry logic of   *)
(* the response interceptor, for the requests made on one instance.        *)

MAX_ATTEMPTS == 3

MaxRequests == 2

\* what one sending of a request ends with: a response with a status, or a
\* network error (error.response is undefined)
Answer(status) == [response |-> [status |-> status]]
NetworkError == [response |-> Undefined]
NoAnswer == [response |-> JsNull]
Answers == {Answer(200), Answer(404), Answer(503), NetworkError}

\* axios resolves 2xx responses and rejects the others
IsAxiosError(answer) ==
    IF answer.response = Undefined THEN TRUE
    ELSE answer.response.status < 200 \/ answer.response.status >= 300

\* shouldRetry(error)
shouldRetry(error) ==
    IF error.response = Undefined THEN TRUE
    ELSE error.response.status >= 500 /\ error.response.status < 600

\* this.client.request(config): the request is sent for the first time
ClientRequest ==
    /\ Len(reqs) < MaxRequests
    /\ reqs' = Append(reqs, [status |-> "inflight", sends |-> 1, last |-> NoAnswer])
    /\ UNCHANGED retryCount
    /\ UNCHANGED <<planVars, execVars, fnVars, taskVars, storeVars, sessionVars, screenVars>>

\* the response interceptor, for the answer to request r: a response is
\* passed on; an error is retried (the counter goes up and the delay starts)
\* or, the counter being reset, handed to handleError, which throws
ClientAnswer(r, answer) ==
    /\ r \in DOMAIN reqs
    /\ reqs[r].status = "inflight"
    /\ IF ~IsAxiosError(answer)
       THEN /\ reqs' = [reqs EXCEPT ![r].status = "resolved", ![r].last = answer]
            /\ UNCHANGED retryCount
       ELSE IF shouldRetry(answer) /\ retryCount < MAX_ATTEMPTS
       THEN /\ retryCount' = retryCount + 1
            /\ reqs' = [reqs EXCEPT ![r].status = "delay", ![r].last = answer]
       ELSE /\ retryCount' = 0
            /\ reqs' = [reqs EXCEPT ![r].status = "rejected", ![r].last = answer]
    /\ UNCHANGED <<planVars, execVars, fnVars, taskVars, storeVars, sessionVars, screenVars>>

\* after the delay: return this.client(originalRequest)
ClientResend(r) ==
    /\ r \in DOMAIN reqs
    /\ reqs[r].status = "delay"
    /\ reqs' = [reqs EXCEPT ![r].status = "inflight", ![r].sends = @ + 1]
    /\ UNCHANGED retryCount
    /\ UNCHANGED <<planVars, execVars, fnVars, taskVars, storeVars, sessionVars, screenVars>>

InitClient == InitPlanVars /\ InitExecVars({<<>>}) /\ InitFnVars /\ InitAppVars

NextClient ==
    \/ ClientRequest
    \/ \E r \in 1..MaxRequests : \E answer \in Answers : ClientAnswer(r, answer)
    \/ \E r \in 1..MaxRequests : ClientResend(r)

SpecClient == InitClient /\ [][NextClient]_vars

-----------------------------------------------------------------------------
(* useAppStore (src/orch-app/src/hooks/useOrchestraApi.ts): the actions of  *)
(* the app store.                                                          *)

MaxHistory == 2
MaxProgress == 1

job1 == <<"j","1">>
boom == <<"b","o","o","m">>
Statuses == {"completed", "error", "in-progress"}

\* zustand's set(partial): the fields of partial replace those of the state
Merge(st, partial) ==
    [f \in DOMAIN st |-> IF f \in DOMAIN partial THEN partial[f] ELSE st[f]]

\* what every action but reset leaves alone
StoreAction(name) ==
    /\ lastAction' = name
    /\ dirty' = {}
    /\ UNCHANGED initialState
    /\ UNCHANGED <<planVars, execVars, fnVars, taskVars, clientVars, sessionVars>>

setCurrentQuery(query) ==
    /\ appState' = Merge(appState, [currentQuery |-> query])
    /\ StoreAction("setCurrentQuery")

setCurrentJobId(jobId) ==
    /\ appState' = Merge(appState, [currentJobId |-> jobId])
    /\ StoreAction("setCurrentJobId")

setLoading(loading) ==
    /\ appState' = Merge(appState, [isLoading |-> loading])
    /\ StoreAction("setLoading")

setError(error) ==
    /\ appState' = Merge(appState, [error |-> error])
    /\ StoreAction("setError")

\* Date.now().toString() + Math.random()...: an id no item of the history has
NewId(items) == CHOOSE n \in 1..(Len(items) + 1) : \A k \in DOMAIN items : items[k].id # n

\* the items an application adds: Omit<QueryHistory, 'id' | 'timestamp'>
NewItems ==
    {[query |-> q1, mode |-> "text", status |-> s, jobId |-> j] :
        s \in Statuses, j \in {Undefined, Str(job1)}}

\* an addToHistory that puts the item into the array the state holds
addToHistoryInPlace(item) ==
    LET items == appState.history.items
        grown == <<Merge(item @@ [id |-> 0], [id |-> NewId(items)])>> \o items
    IN  /\ Len(items) < MaxHistory
        /\ appState' = Merge(appState,
                             [history |-> ArrayRef(appState.history.shared, grown)])
        /\ initialState' = IF appState.history.shared
                           THEN Merge(initialState, [history |-> grown])
                           ELSE initialState
        /\ lastAction' = "addToHistory"
        /\ dirty' = {}
        /\ UNCHANGED <<planVars, execVars, fnVars, taskVars, clientVars, sessionVars>>

\* history: [newItem, ...state.history], a new array
addToHistory(item) ==
    LET items == appState.history.items
        newItem == Merge(item @@ [id |-> 0], [id |-> NewId(items)])
    IN  /\ Len(items) < MaxHistory
        /\ appState' = Merge(appState,
                             [history |-> ArrayRef(FALSE, <<newItem>> \o items)])
        /\ StoreAction("addToHistory")

\* the fields of QueryHistory an application updates
Updates == {[status |-> s] : s \in Statuses} \cup {[jobId |-> Str(job1)]}

\* history: state.history.map(item => item.id === id ? {...item, ...updates} : item)
updateHistoryItem(id, updates) ==
    LET items == appState.history.items
        mapped == [k \in DOMAIN items |->
                      IF items[k].id = id THEN Merge(items[k], updates) ELSE items[k]]
    IN  /\ appState' = Merge(appState, [history |-> ArrayRef(FALSE, mapped)])
        /\ StoreAction("updateHistoryItem")

\* history: state.history.map(item => item.jobId === jobId ? {...item, status} : item)
updateHistoryStatus(jobId, status) ==
    LET items == appState.history.items
        mapped == [k \in DOMAIN items |->
                      IF items[k].jobId = Str(jobId)
                      THEN Merge(items[k], [status |-> status]) ELSE items[k]]
    IN  /\ appState' = Merge(appState, [history |-> ArrayRef(FALSE, mapped)])
        /\ StoreAction("updateHistoryStatus")

\* the progress updates an application adds
ProgressUpdates == {[step |-> "plan", progress |-> 50, status |-> "in-progress"]}

\* progressUpdates: [...state.progressUpdates, update], a new array
addProgressUpdate(update) ==
    LET items == appState.progressUpdates.items
    IN  /\ Len(items) < MaxProgress
        /\ appState' = Merge(appState,
                             [progressUpdates |-> ArrayRef(FALSE, Append(items, update))])
        /\ StoreAction("addProgressUpdate")

clearProgressUpdates ==
    /\ appState' = Merge(appState, [progressUpdates |-> ArrayRef(FALSE, <<>>)])
    /\ StoreAction("clearProgressUpdates")

clearError ==
    /\ appState' = Merge(appState, [error |-> JsNull])
    /\ StoreAction("clearError")

\* the value of a field of the store: of an array, its items
FieldValue(st, f) == IF f \in ArrayFields THEN st[f].items ELSE st[f]

\* reset: () => set(initialState)
reset ==
    /\ appState' = Merge(appState, StateFrom(initialState))
    /\ lastAction' = "reset"
    /\ dirty' = {f \in DOMAIN InitialStateObject :
                    FieldValue(appState, f) # InitialStateObject[f]}
    /\ UNCHANGED initialState
    /\ UNCHANGED <<planVars, execVars, fnVars, taskVars, clientVars, sessionVars>>

InitStore == InitPlanVars /\ InitExecVars({<<>>}) /\ InitFnVars /\ InitAppVars

NextStore ==
    \/ \E query \in {<<>>, q1} : setCurrentQuery(Str(query)) /\ UNCHANGED screenVars
    \/ \E jobId \in {JsNull, Str(job1)} : setCurrentJobId(jobId) /\ UNCHANGED screenVars
    \/ \E loading \in BOOLEAN : setLoading(loading) /\ UNCHANGED screenVars
    \/ \E error \in {JsNull, Str(boom)} : setError(error) /\ UNCHANGED screenVars
    \/ \E item \in NewItems : addToHistory(item) /\ UNCHANGED screenVars
    \/ \E id \in 0..MaxHistory : \E updates \in Updates : updateHistoryItem(id, updates) /\ UNCHANGED screenVars
    \/ \E status \in Statuses : updateHistoryStatus(job1, status) /\ UNCHANGED screenVars
    \/ \E update \in ProgressUpdates : addProgressUpdate(update) /\ UNCHANGED screenVars
    \/ clearProgressUpdates /\ UNCHANGED screenVars
    \/ clearError /\ UNCHANGED screenVars
    \/ reset /\ UNCHANGED screenVars

SpecStore == InitStore /\ [][NextStore]_vars

-----------------------------------------------------------------------------
(* Several plan() calls on one PageNavigator: each call has its own cache   *)
(* and flag (locals of plan), all calls share the capability provider and  *)
(* the page.  A call is suspended while it awaits invokeStagehand, and the *)
(* other call may run meanwhile.                                           *)

Sessions == {1, 2}

MaxSessionCalls == 4

NoPending == [name |-> Null]

\* const cache = new Map(); let clearCacheBeforeNextRead = false; and, for the
\* record, the tool results the call has appended
NewSession == [cache |-> <<>>, flag |-> FALSE, pending |-> NoPending, log |-> <<>>]

\* a cache that is a field of the navigator: every call reads the same Map
CacheOfShared(ss, s) == ss[1].cache

\* the cache a plan() call reads: its own local
CacheOf(ss, s) == ss[s].cache

\* the tool calls the sessions have begun so far, all sessions together
SessionCalls(ss) ==
    LET Begun(s) == IF s \in DOMAIN ss
                    THEN Len(ss[s].log) + (IF ss[s].pending = NoPending THEN 0 ELSE 1)
                    ELSE 0
    IN  Begun(1) + Begun(2)

\* plan(task) is called: sessions are numbered in the order of their calls
SessionStart ==
    /\ Len(sessions) < Cardinality(Sessions)
    /\ sessions' = Append(sessions, NewSession)
    /\ UNCHANGED <<planVars, execVars, fnVars, taskVars, clientVars, storeVars, screenVars>>

\* one capability tool call of session s, up to the await of invokeStagehand:
\* the cache is cleared if a read follows an act, a cached read is answered,
\* and otherwise the provider is invoked
SessionBegin(s, validName, query, outcome) ==
    /\ s \in DOMAIN sessions
    /\ sessions[s].pending = NoPending
    /\ SessionCalls(sessions) < MaxSessionCalls
    /\ LET key == Key(validName, query)
           clears == ClearsCache(validName, sessions[s].flag)
           cache1 == IF clears THEN <<>> ELSE CacheOf(sessions, s)
           flag1 == IF clears THEN FALSE ELSE sessions[s].flag
       IN  IF ServedFromCache(validName, key, cache1)
           THEN /\ sessions' = [sessions EXCEPT
                                   ![s].cache = cache1,
                                   ![s].flag = flag1,
                                   ![s].log = Append(@, [name |-> validName, query |-> query,
                                                         content |-> cache1[key],
                                                         invoked |-> FALSE,
                                                         at |-> Len(invocations)])]
                /\ UNCHANGED <<invocations, pageVersion>>
           ELSE /\ sessions' = [sessions EXCEPT
                                   ![s].cache = cache1,
                                   ![s].flag = flag1,
                                   ![s].pending =
                                       [name |-> validName, query |-> query,
                                        result |-> invokeStagehand(validName, query, outcome,
                                                                   pageVersion)]]
                /\ invocations' = Append(invocations,
                                         Invocation(validName, query, outcome, pageVersion,
                                                    <<s, Len(sessions[s].log) + 1>>))
                /\ pageVersion' = IF validName = act THEN pageVersion + 1 ELSE pageVersion
    /\ UNCHANGED <<state, iter, messages, cache, clearCacheBeforeNextRead, msg, toolCalls,
                   tc, planResult, planError, requests>>
    /\ UNCHANGED <<execVars, fnVars, taskVars, clientVars, storeVars, screenVars>>

\* session s after the await: "Update cache & flags", and the tool result
SessionResume(s) ==
    /\ s \in DOMAIN sessions
    /\ sessions[s].pending # NoPending
    /\ LET p == sessions[s].pending
           key == Key(p.name, p.query)
       IN  sessions' = [sessions EXCEPT
                           ![s].cache = IF CachesResult(p.name)
                                        THEN CacheSet(@, key, p.result) ELSE @,
                           ![s].flag = IF p.name = act THEN TRUE ELSE @,
                           ![s].pending = NoPending,
                           ![s].log = Append(@, [name |-> p.name, query |-> p.query,
                                                 content |-> p.result, invoked |-> TRUE,
                                                 at |-> Len(invocations)])]
    /\ UNCHANGED <<planVars, execVars, fnVars, taskVars, clientVars, storeVars, screenVars>>

InitSessions == InitPlanVars /\ InitExecVars({<<>>}) /\ InitFnVars /\ InitAppVars

NextSessions ==
    \/ SessionStart
    \/ \E s \in Sessions : \E validName \in CommandNames : \E query \in {q1} :
          \E outcome \in {"ok"} : SessionBegin(s, validName, query, outcome)
    \/ \E s \in Sessions : SessionResume(s)

SpecSessions == InitSessions /\ [][NextSessions]_vars

-----------------------------------------------------------------------------
(* The app's submit-and-poll flow: HomeScreen.handleSubmit                   *)
(* (src/orch-app/src/screens/HomeScreen.tsx), the polling effect of         *)
(* ResultScreen (src/orch-app/src/screens/SettingsScreen.tsx) and the job   *)
(* service behind them (src/orch-app/src/services/orchestraApi.ts).         *)

\* what the user types into the query field
QueryTexts == {<<>>, <<" ">>, q1, <<" ">> \o q1, UrlQuery}

\* everything but the store and the screens
besidesApp == <<planVars, execVars, fnVars, taskVars, clientVars, sessionVars>>

\* onChangeText={setQuery}; the field is disabled while a submit is running
setQuery(text) ==
    /\ screens.route = "Home"
    /\ ~screens.loading
    /\ screens' = Merge(screens, [query |-> text])
    /\ UNCHANGED <<besidesApp, storeVars>>

\* handleSubmit up to `await submitQuery`: the history entry is added
\* with query, mode and status only
handleSubmit ==
    /\ screens.route = "Home"
    /\ ~screens.loading
    /\ trim(screens.query) # <<>>
    /\ addToHistory([query |-> screens.query, mode |-> screens.mode,
                     status |-> "in-progress", jobId |-> Undefined])
    /\ screens' = Merge(screens, [loading |-> TRUE, apiError |-> FALSE,
                                  historyId |-> NewId(appState.history.items)])

\* `job_${Date.now()}_${Math.random()...}`: an id no earlier job has
NewJobId == <<"j", ToString(Len(screens.submissions) + 1)>>

\* handleSubmit from the answer of submitQuery on: a job id (the request
\* went through) or null (it failed and the hook recorded the error)
submitQuery(outcome) ==
    /\ screens.loading
    /\ IF outcome = "ok"
       THEN /\ setCurrentJobId(Str(NewJobId))
            /\ screens' = Merge(screens,
                   [loading |-> FALSE, route |-> "Result", jobId |-> NewJobId,
                    interval |-> TRUE, isCompleted |-> FALSE,
                    status |-> "Processing...",
                    submissions |-> Append(screens.submissions,
                                           [historyId |-> screens.historyId,
                                            jobId |-> NewJobId])])
       ELSE /\ screens' = Merge(screens, [loading |-> FALSE, apiError |-> TRUE])
            /\ UNCHANGED <<besidesApp, storeVars>>

\* orchestraApi.getJobStatus: the service runs a task at once, so every job
\* is reported completed
getJobStatus(jobId) ==
    [jobId |-> jobId, status |-> "completed", progress |-> 100]

\* pollJobStatus, run when the Result screen mounts and by its interval
pollJobStatus ==
    /\ screens.route = "Result"
    /\ screens.interval
    /\ screens.jobId # <<>>
    /\ LET status == getJobStatus(screens.jobId) IN
       IF status.status = "completed"
       THEN /\ updateHistoryStatus(screens.jobId, "completed")
            /\ screens' = Merge(screens, [status |-> "Completed successfully!",
                                          isCompleted |-> TRUE, interval |-> FALSE])
       ELSE IF status.status = "failed"
       THEN /\ updateHistoryStatus(screens.jobId, "error")
            /\ screens' = Merge(screens, [status |-> "Failed to process request",
                                          isCompleted |-> TRUE, interval |-> FALSE])
       ELSE /\ screens' = Merge(screens, [status |-> "Processing your request..."])
            /\ UNCHANGED <<besidesApp, storeVars>>

\* handleNewQuery: back to the Home tab; the effect's cleanup clears the
\* interval
handleNewQuery ==
    /\ screens.route = "Result"
    /\ screens' = Merge(screens, [route |-> "Home", interval |-> FALSE])
    /\ UNCHANGED <<besidesApp, storeVars>>

InitApp == InitPlanVars /\ InitExecVars({<<>>}) /\ InitFnVars /\ InitAppVars

NextApp ==
    \/ \E text \in QueryTexts : setQuery(text)
    \/ handleSubmit
    \/ \E outcome \in {"ok", "error"} : submitQuery(outcome)
    \/ pollJobStatus
    \/ handleNewQuery

SpecApp == InitApp /\ [][NextApp]_vars

-----------------------------------------------------------------------------
(* Properties of PageNavigator.plan: the round budget and the ways a       *)
(* negotiation ends.                                                       *)

\* the role = "tool" entries of the transcript, in order
ToolEntries(ms) == SelectSeq(ms, LAMBDA e : e.role = "tool")

IsAssistantText(e) == e.role = "assistant" /\ "content" \in DOMAIN e

\* C1: the completion provider is requested at most 16 times per plan() call;
\* a negotiation whose 16 rounds were capability calls, unknown tool calls or
\* empty messages, none of them finalizing, fails with the planning-exhausted
\* error right after round 16 (iter = 16, nothing left to process) and no
\* 17th request is issued.
C1_RoundBudget ==
    /\ requests <= 16
    /\ iter <= 16
    /\ iter = 16 => state = "Exhausted"
    /\ state = "Exhausted" =>
          /\ iter = 16
          /\ requests = 16
          /\ toolCalls = <<>>
          /\ planError = Err("PlanningExhausted")
          /\ planResult = NoPlan
    /\ state = "Negotiating" => planError = NoError /\ planResult = NoPlan

\* C1 witness: exhaustion after a mix of rounds, the 16th being a tool round
C1_Witness ==
    /\ state = "Exhausted"
    /\ requests = 16
    /\ Len(ToolEntries(messages)) >= 2
    /\ messages[Len(messages)].role = "tool"
    /\ \E k \in DOMAIN messages : IsAssistantText(messages[k])

\* the current round's message is free-form text (no tool call, not blank)
IsFreeText(m) ==
    m # NoMessage /\ Len(m.tool_calls) = 0 /\ m.content.type = "string" /\ ~m.content.blank

\* ... that is neither JSON nor holds a fenced block that is JSON
IsUnparseableText(m) ==
    IsFreeText(m) /\ ~m.content.direct.ok /\ ~(m.content.hasFence /\ m.content.fenced.ok)

\* the current round's message has neither tool calls nor text
IsIdle(m) ==
    m # NoMessage /\ Len(m.tool_calls) = 0 /\ (m.content.type # "string" \/ m.content.blank)

\* C2 as stated: a round whose non-empty text parses neither directly nor as
\* a fenced block does not fail the negotiation; the text is appended as an
\* assistant entry and the state stays Negotiating (until the budget is spent).
C2_Original ==
    IsUnparseableText(msg) =>
        /\ state \in {"Negotiating", "Exhausted"}
        /\ messages[Len(messages)] = AssistantText(msg.content)

\* C2 amended: such a text fails the negotiation at once with the parse error
\* (nothing is appended, no plan, no further round); only a message without
\* text (absent, empty or blank content) is appended as an assistant entry and
\* followed by the next round.
C2_ParseFailureIsFatal ==
    /\ IsUnparseableText(msg) =>
          /\ state = "Failed"
          /\ planError = (IF msg.content.hasFence THEN Err("SyntaxError")
                          ELSE Err("NoJsonCodeFence"))
          /\ planResult = NoPlan
          /\ requests = iter + 1
          /\ \A k \in DOMAIN messages : messages[k] # AssistantText(msg.content)
    /\ IsIdle(msg) =>
          /\ state \in {"Negotiating", "Exhausted"}
          /\ iter = requests
          /\ messages[Len(messages)] =
                AssistantText(IF msg.content.type = "string" THEN msg.content ELSE EmptyString)

\* C2 witness: prose arrives in a later round, after tool results, and the
\* negotiation has failed
C2_Witness ==
    /\ msg = Message(Prose, <<>>)
    /\ state = "Failed"
    /\ requests >= 2
    /\ messages[Len(messages)].role = "tool"

\* the plan GoodRaw validates to: "Wait for" is coerced to observe
GoodPlan == << [name |-> act, query |-> q1], [name |-> observe, query |-> q2],
               [name |-> extract, query |-> q1] >>

\* the tool call processed last was finalize_plan (its arguments were JSON)
FinalizeProcessed == tc.name = Str(finalize_plan) /\ tc.arguments.ok

\* C3: when a round contains a finalize_plan call, plan() ends at that call:
\* with the validated Plan if the argument validates (state Finalized), with
\* the validation error and no Plan if it does not (state Failed); in both
\* cases no further completion request is issued.
C3_FinalizeEndsNegotiation ==
    FinalizeProcessed =>
        LET args == tc.arguments.val IN
        /\ state \in {"Finalized", "Failed"}
        /\ requests = iter + 1
        /\ state = "Finalized" =>
              /\ planResult.returned
              /\ planError = NoError
              /\ \A k \in DOMAIN planResult.plan :
                    /\ planResult.plan[k].name \in CommandNames
                    /\ planResult.plan[k].query = args.plan.items[k].query.val
              /\ Len(planResult.plan) = Len(args.plan.items)
              /\ messages[Len(messages)] = ToolEntry(tc.id, Str(finalize_plan), Received)
        /\ state = "Failed" =>
              /\ planResult = NoPlan
              /\ planError.kind \in {"InvalidPlanShape", "InvalidPlanStep"}
        /\ args = GoodRaw => state = "Finalized" /\ planResult = Plan(GoodPlan)
        /\ args = BadStepRaw => state = "Failed" /\ planError = StepErr(1, "name")

\* C3 witness: a valid finalize_plan call, second in its round, with a call
\* after it that is left unprocessed
C3_Witness ==
    /\ FinalizeProcessed
    /\ state = "Finalized"
    /\ planResult = Plan(GoodPlan)
    /\ toolCalls # <<>>
    /\ Len(ToolEntries(messages)) >= 2

-----------------------------------------------------------------------------
(* Properties of PageNavigator.execute                                     *)

\* what step k's capability call resolved to, or the payload of its rejection
StepOutput(k) ==
    IF invocations[k].outcome = "ok"
    THEN [result |-> xplan[k].name, query |-> xplan[k].query,
          version |-> invocations[k].version]
    ELSE [error |-> invocations[k].outcome]

\* C4: whatever capability calls and artifact captures fail, the outputs that
\* execute returns have exactly Plan.length entries and entry k is the output
\* of plan step k (while it runs, outputs holds the steps done so far, in order).
C4_OneOutputPerStep ==
    /\ Len(outputs) <= Len(xplan)
    /\ Len(outputs) = Len(invocations)
    /\ xstate = "returned" => Len(outputs) = Len(xplan)
    /\ \A k \in DOMAIN outputs :
          /\ invocations[k].caller = StepCaller(k)
          /\ invocations[k].name = xplan[k].name
          /\ invocations[k].query = xplan[k].query
          /\ outputs[k] = StepOutput(k)

\* C4 witness: a 3-step plan returned, with a failed capability call and a
\* failed capture among its steps
C4_Witness ==
    /\ xstate = "returned"
    /\ Len(xplan) = 3
    /\ Len(outputs) = 3
    /\ \E k \in DOMAIN invocations : invocations[k].outcome # "ok"
    /\ \E k \in DOMAIN captures : ~captures[k].saved

\* C5 as stated: execute never fails as a whole, whichever collaborator fails
\* (capability provider, screenshot, preparing the artifact directory).
C5_NeverRejects == xstate # "rejected"

\* C6: a capability failure at step k is isolated: output k is the error
\* payload carrying the failure message, and every other step is still invoked
\* and captured, its output being what the provider returned for it.
C6_FailureIsolated ==
    \A k \in DOMAIN invocations :
        invocations[k].outcome # "ok" =>
            /\ xstate \in {"invoke", "capture", "returned"}
            /\ outputs[k] = ErrorPayload(invocations[k].outcome)
            /\ xstate = "returned" =>
                  /\ Len(invocations) = Len(xplan)
                  /\ Len(captures) = Len(xplan)
                  /\ \A j \in DOMAIN xplan :
                        j # k /\ invocations[j].outcome = "ok" =>
                            outputs[j] = Returned(xplan[j].name, xplan[j].query,
                                                  invocations[j].version)

\* C6 witness: the middle step of a 3-step plan failed, the other two did not
C6_Witness ==
    /\ xstate = "returned"
    /\ Len(xplan) = 3
    /\ invocations[1].outcome = "ok"
    /\ invocations[2].outcome # "ok"
    /\ invocations[3].outcome = "ok"
    /\ outputs[2] = ErrorPayload("timeout")
    /\ outputs[3] = Returned(xplan[3].name, xplan[3].query, invocations[3].version)

-----------------------------------------------------------------------------
(* Properties of the read cache of plan()                                  *)

\* every tool call the completion provider has sent in this session
CallsSent ==
    UNION { {messages[k].tool_calls[j] : j \in DOMAIN messages[k].tool_calls} :
            k \in {a \in DOMAIN messages : messages[a].role = "assistant"
                                           /\ "tool_calls" \in DOMAIN messages[a]} }

CallOf(id) == CHOOSE c \in CallsSent : c.id = id

IsReadEntry(e) == e.name \in {Str(observe), Str(extract)}
IsActEntry(e) == e.name = Str(act)

\* the (kind, query) pair of the call a tool entry answers
EntryKey(e) == <<e.name.val, QueryOf(CallOf(e.tool_call_id).arguments.val)>>

\* the provider invocations made for the call a tool entry answers
InvocationsFor(e) ==
    {k \in DOMAIN invocations : invocations[k].caller = e.tool_call_id}

\* what the provider call k resolved to, or the payload of its rejection
ProviderPayload(k) ==
    IF invocations[k].outcome = "ok"
    THEN [result |-> invocations[k].name, query |-> invocations[k].query,
          version |-> invocations[k].version]
    ELSE [error |-> invocations[k].outcome]

NoActSoFar == \A k \in DOMAIN invocations : invocations[k].name # act

\* C7: as long as the session has seen no act call, the provider is invoked
\* exactly once per distinct (kind, query): for the first read of the pair;
\* every later read of the pair gets the same tool result without an
\* invocation, also when reads of other pairs lie in between.
C7_OneInvocationPerKey ==
    NoActSoFar =>
        LET T == ToolEntries(messages)
            reads == {a \in DOMAIN T : IsReadEntry(T[a])}
        IN  /\ \A a \in reads :
                  LET same == {b \in reads : EntryKey(T[b]) = EntryKey(T[a])}
                      first == CHOOSE b \in same : \A c \in same : b <= c
                  IN  /\ Cardinality(InvocationsFor(T[a])) = (IF a = first THEN 1 ELSE 0)
                      /\ T[a].content = T[first].content
                      /\ \A k \in InvocationsFor(T[a]) :
                            /\ <<invocations[k].name, invocations[k].query>> = EntryKey(T[a])
                            /\ T[a].content = ProviderPayload(k)
            /\ Len(invocations) = Cardinality({EntryKey(T[a]) : a \in reads})

\* C7 witness: read A, read B, read A again, no act: two invocations
C7_Witness ==
    LET T == ToolEntries(messages) IN
    /\ NoActSoFar
    /\ Len(T) = 3
    /\ \A a \in 1..3 : IsReadEntry(T[a])
    /\ EntryKey(T[1]) = EntryKey(T[3])
    /\ EntryKey(T[1]) # EntryKey(T[2])
    /\ Len(invocations) = 2

\* C8: the first observe or extract call after an act call always invokes the
\* provider, whether or not its (kind, query) was cached before the act and
\* whatever the act's query was; its tool result is what that invocation gave.
C8_ReadAfterActInvokes ==
    LET T == ToolEntries(messages) IN
    \A a, b \in DOMAIN T :
        ( /\ a < b
          /\ IsActEntry(T[a])
          /\ IsReadEntry(T[b])
          /\ \A c \in (a + 1)..(b - 1) : ~IsReadEntry(T[c]) )
        => /\ Cardinality(InvocationsFor(T[b])) = 1
           /\ \A k \in InvocationsFor(T[b]) :
                 /\ <<invocations[k].name, invocations[k].query>> = EntryKey(T[b])
                 /\ invocations[k].version >= 1
                 /\ T[b].content = ProviderPayload(k)

\* C8 witness: read A (cached), act, read A again: three invocations
C8_Witness ==
    LET T == ToolEntries(messages) IN
    /\ Len(T) = 3
    /\ IsReadEntry(T[1]) /\ IsActEntry(T[2]) /\ IsReadEntry(T[3])
    /\ EntryKey(T[1]) = EntryKey(T[3])
    /\ Len(invocations) = 3

\* the step processes a tool call whose arguments are JSON; its tool name
ProcessesCall == tc' # tc /\ tc'.arguments.ok /\ tc'.arguments.val.type # "null"
NameProcessed == toLowerCase(IF tc'.name.type = "string" THEN tc'.name.val ELSE <<>>)

\* C9: invalidation is lazy.  Processing an act call leaves the cache as it is
\* and sets the pending-invalidation flag.  The cache loses entries only when
\* an observe/extract call is processed with the flag set: then all earlier
\* entries go and the flag is reset before the cache is consulted, so that the
\* call misses and the cache holds its result alone.  A read processed with the
\* flag clear keeps every entry, and no other step touches the cache or the flag.
C9_LazyInvalidation ==
    [][ LET n == NameProcessed
            key == Key(n, QueryOf(tc'.arguments.val))
        IN  /\ (ProcessesCall /\ n = act) =>
                  cache' = cache /\ clearCacheBeforeNextRead'
            /\ (ProcessesCall /\ IsRead(n) /\ clearCacheBeforeNextRead) =>
                  /\ ~clearCacheBeforeNextRead'
                  /\ DOMAIN cache' = {key}
                  /\ Len(invocations') = Len(invocations) + 1
                  /\ cache'[key] = ProviderPayload(Len(invocations))'
            /\ (ProcessesCall /\ IsRead(n) /\ ~clearCacheBeforeNextRead) =>
                  /\ ~clearCacheBeforeNextRead'
                  /\ DOMAIN cache' = DOMAIN cache \cup {key}
                  /\ \A k \in DOMAIN cache : cache'[k] = cache[k]
            /\ ~(ProcessesCall /\ (n = act \/ IsRead(n))) =>
                  UNCHANGED <<cache, clearCacheBeforeNextRead>>
      ]_vars

\* C9 witness: a read is cached, an act follows, and the next read, of another
\* pair, has emptied the cache and stored its own result alone
C9_Witness ==
    /\ ~clearCacheBeforeNextRead
    /\ pageVersion = 1
    /\ Len(invocations) = 3
    /\ IsRead(invocations[1].name)
    /\ invocations[2].name = act
    /\ IsRead(invocations[3].name)
    /\ invocations[1].query # invocations[3].query
    /\ DOMAIN cache = {Key(invocations[3].name, invocations[3].query)}

\* C10: act calls are never cached: every act call processed invokes the
\* provider exactly once, also when the same act query was issued before, its
\* tool result is what that invocation gave, and no cache entry is stored
\* under an act key.
C10_ActNeverCached ==
    LET T == ToolEntries(messages) IN
    /\ \A k \in DOMAIN cache : k[1] \in {observe, extract}
    /\ \A a \in DOMAIN T :
          IsActEntry(T[a]) =>
              /\ Cardinality(InvocationsFor(T[a])) = 1
              /\ \A k \in InvocationsFor(T[a]) :
                    /\ <<invocations[k].name, invocations[k].query>> = EntryKey(T[a])
                    /\ T[a].content = ProviderPayload(k)
    /\ pageVersion = Cardinality({a \in DOMAIN T : IsActEntry(T[a])})

\* C10 witness: the same act query processed twice, with a read cached
C10_Witness ==
    LET T == ToolEntries(messages) IN
    /\ Len(T) = 3
    /\ IsActEntry(T[2]) /\ IsActEntry(T[3])
    /\ EntryKey(T[2]) = EntryKey(T[3])
    /\ IsReadEntry(T[1])
    /\ Len(invocations) = 3
    /\ DOMAIN cache = {EntryKey(T[1])}

-----------------------------------------------------------------------------
(* Properties of plan(): failures inside a round                           *)

\* C11: a capability provider rejection for an observe/extract/act tool call
\* never aborts plan(): the tool result appended for that call is the error
\* payload carrying the rejection's message, and plan() never fails with the
\* rejection; right after the call plan() has not failed: with calls of the
\* round left it goes on processing them, and after the round's last call the
\* next round is requested (or the budget is spent).
C11_RejectionAbsorbed ==
    \A k \in DOMAIN invocations :
        invocations[k].outcome # "ok" =>
            LET id == invocations[k].caller
                entry == ToolEntry(id, Str(invocations[k].name),
                                   ErrorPayload(invocations[k].outcome))
            IN  /\ \E p \in DOMAIN messages : messages[p] = entry
                /\ planError.kind \notin Rejections
                /\ (tc.id = id /\ requests = id[1]) =>
                      /\ messages[Len(messages)] = entry
                      /\ planError.kind \in {"none", "PlanningExhausted"}
                      /\ planResult = NoPlan
                      /\ IF toolCalls # <<>>
                         THEN state = "Negotiating" /\ iter = requests - 1
                         ELSE /\ iter = requests
                              /\ state = (IF iter < MaxIter THEN "Negotiating"
                                          ELSE "Exhausted")

\* C11 witness: the first call of a two-call round was rejected, the second
\* call was processed and a further round was requested
C11_Witness ==
    /\ Len(invocations) >= 1
    /\ invocations[1].outcome # "ok"
    /\ invocations[1].caller = <<1, 1>>
    /\ msg.type = "message"
    /\ requests = 2
    /\ Len(ToolEntries(messages)) = 2
    /\ ToolEntries(messages)[1].content = ErrorPayload("timeout")
    /\ state = "Negotiating"

\* the four tool names of the tool surface
ToolNames == {Str(observe), Str(extract), Str(act), Str(finalize_plan)}

\* C12 as stated: a processed tool call whose name is none of observe, extract,
\* act, finalize_plan is answered by the unknown-tool payload, the provider is
\* not invoked for it and the negotiation does not fail at it.
C12_Original ==
    (tc # NoCall /\ tc.name \notin ToolNames) =>
        /\ \E p \in DOMAIN messages :
              messages[p] = ToolEntry(tc.id, tc.name, UnknownTool(tc.name))
        /\ \A k \in DOMAIN invocations : invocations[k].caller # tc.id
        /\ requests = tc.id[1] => state # "Failed"

\* C12 amended: the name is compared after lower-casing, and the arguments are
\* parsed before the name is looked at.  A tool call whose lower-cased name is
\* none of observe, extract, act (and whose name is not finalize_plan), with
\* arguments that are JSON, appends the unknown-tool payload as that call's
\* tool result, leaves the cache, the flag and the provider alone and does not
\* end the round; with arguments that are not JSON it fails plan() with the
\* syntax error and appends nothing.
C12_UnknownToolAnswered ==
    [][ (tc' # tc /\ NameProcessed \notin CommandNames /\ tc'.name # Str(finalize_plan)) =>
            IF tc'.arguments.ok
            THEN /\ messages' = Append(messages,
                                       ToolEntry(tc'.id, tc'.name, UnknownTool(tc'.name)))
                 /\ UNCHANGED <<cache, clearCacheBeforeNextRead, invocations, pageVersion>>
                 /\ toolCalls' = Tail(toolCalls)
                 /\ state' \in {"Negotiating", "Exhausted"}
                 /\ planResult' = NoPlan
                 /\ state' = "Negotiating" => planError' = NoError
            ELSE /\ state' = "Failed"
                 /\ planError' = Err("SyntaxError")
                 /\ UNCHANGED <<messages, cache, clearCacheBeforeNextRead, invocations,
                                pageVersion>>
      ]_vars

\* C12 witness: an unknown tool call answered while the cache holds a read
C12_Witness ==
    /\ tc.name = Str(<<"c","l","i","c","k">>)
    /\ tc.arguments.ok
    /\ messages[Len(messages)] = ToolEntry(tc.id, tc.name, UnknownTool(tc.name))
    /\ DOMAIN cache # {}
    /\ Len(invocations) = 1
    /\ state = "Negotiating"

-----------------------------------------------------------------------------
(* Properties of validatePlan and normalizeCommandName                     *)

\* a raw step the validator has to reject: not an object, a query that is
\* missing, empty or not a string, or a name that is neither canonical nor
\* normalizable
Offending(step) ==
    \/ step.type # "object"
    \/ step.query.type # "string"
    \/ step.query.val = <<>>
    \/ step.name.type # "string"
    \/ /\ step.name.val \notin CommandNames
       /\ normalizeCommandName(step.name.val) = Null

HasPlanArray(raw) == raw.type = "object" /\ raw.plan.type = "array"

\* C13: validatePlan rejects every input whose top-level value is not an
\* object with an array field plan, with InvalidPlanShape; it rejects every
\* input with an offending step with InvalidPlanStep, the index reported being
\* that of the first offending step; in both cases no Plan is returned.
C13_ValidatorRejects ==
    (fnCall.fn = "validatePlan" /\ fnRet.done) =>
        LET raw == fnCall.raw
            r == fnRet.value
        IN  IF ~HasPlanArray(raw)
            THEN r = [ok |-> FALSE, error |-> Err("InvalidPlanShape")]
            ELSE LET items == raw.plan.items
                     bad == {k \in DOMAIN items : Offending(items[k])}
                 IN  bad # {} =>
                        /\ ~r.ok
                        /\ DOMAIN r = {"ok", "error"}
                        /\ r.error.kind = "InvalidPlanStep"
                        /\ \E k \in bad : /\ r.error.index = k - 1
                                          /\ \A j \in bad : k <= j

\* C13 witness: the first step is fine, the second has an empty query and a
\* name that cannot be normalized either; index 1 is reported, for the query
C13_Witness ==
    /\ fnCall.fn = "validatePlan"
    /\ fnRet.done
    /\ HasPlanArray(fnCall.raw)
    /\ Len(fnCall.raw.plan.items) = 2
    /\ ~Offending(fnCall.raw.plan.items[1])
    /\ fnCall.raw.plan.items[2] = RawStep(Str(<<"l","o","o","k">>), Str(<<>>))
    /\ fnRet.value = [ok |-> FALSE, error |-> StepErr(1, "query")]

\* the raw plan the model supplied in the round that ended the negotiation:
\* the finalize_plan arguments, or what safeParsePlan made of the text
RawSupplied ==
    IF Len(msg.tool_calls) > 0 THEN tc.arguments.val
    ELSE IF msg.content.direct.ok THEN msg.content.direct.val
    ELSE msg.content.fenced.val

\* C14: every Plan plan() returns, through finalize_plan or through the
\* free-text fallback, has kinds among observe, extract, act and non-empty
\* string queries, and has as many steps as the raw plan supplied, in the same
\* order and with the same queries.
C14_ReturnedPlanValid ==
    state = "Finalized" =>
        LET items == RawSupplied.plan.items
            p == planResult.plan
        IN  /\ planResult.returned
            /\ Len(p) = Len(items)
            /\ \A k \in DOMAIN p :
                  /\ DOMAIN p[k] = {"name", "query"}
                  /\ p[k].name \in CommandNames
                  /\ p[k].query # <<>>
                  /\ items[k].query = Str(p[k].query)

\* C14 witness: a plan returned through the fallback, from a fenced block in
\* the text of a later round
C14_Witness ==
    /\ state = "Finalized"
    /\ msg.type = "message"
    /\ Len(msg.tool_calls) = 0
    /\ msg.content.hasFence
    /\ requests >= 2
    /\ Len(planResult.plan) = 3
    /\ planResult.plan[2] = [name |-> observe, query |-> q2]

UpperChar(c) ==
    IF \E k \in DOMAIN Lowers : Lowers[k] = c
    THEN Uppers[CHOOSE k \in DOMAIN Lowers : Lowers[k] = c]
    ELSE c

toUpperCase(s) == [k \in DOMAIN s |-> UpperChar(s[k])]

Wait == <<"w","a","i","t">>

\* the keyword rules, on the lower-cased and trimmed name
MatchesObserve(n) == StartsWith(n, Wait) \/ ContainsAny(n, ObserveWords)
MatchesAct(n) == ContainsAny(n, ActWords)
MatchesExtract(n) == ContainsAny(n, ExtractWords)

\* C15: normalizeCommandName is deterministic and case-insensitive and applies
\* its rules in a fixed order, first match wins: exact canonical name; prefix
\* wait or an observe keyword anywhere gives observe; an act keyword anywhere
\* gives act; an extract keyword anywhere gives extract; otherwise null.  Hence
\* a name matching both the observe and the act rule yields observe, and one
\* matching both the act and the extract rule (and not the observe rule) act.
C15_FirstMatchWins ==
    (fnCall.fn = "normalizeCommandName" /\ fnRet.done) =>
        LET name == fnCall.name
            n == trim(toLowerCase(name))
            r == fnRet.value
        IN  /\ r = normalizeCommandName(name)
            /\ r = normalizeCommandName(toLowerCase(name))
            /\ r = normalizeCommandName(toUpperCase(name))
            /\ r = (IF n \in CommandNames THEN n
                    ELSE IF MatchesObserve(n) THEN observe
                    ELSE IF MatchesAct(n) THEN act
                    ELSE IF MatchesExtract(n) THEN extract
                    ELSE Null)
            /\ (n \notin CommandNames /\ MatchesObserve(n) /\ MatchesAct(n)) => r = observe
            /\ (n \notin CommandNames /\ ~MatchesObserve(n) /\ MatchesAct(n)
                /\ MatchesExtract(n)) => r = act

\* C15 witness: "Checkclick" matches the observe and the act rule and yields
\* observe
C15_Witness ==
    /\ fnCall.fn = "normalizeCommandName"
    /\ fnCall.name = <<"C","h","e","c","k","c","l","i","c","k">>
    /\ fnRet.done
    /\ fnRet.value = observe

\* C16 as stated: a name containing wait, verify, check or confirm anywhere
\* yields observe, a name containing an act keyword yields act, a name
\* containing an extract keyword yields extract, every other name null.
C16_Original ==
    (fnCall.fn = "normalizeCommandName" /\ fnRet.done) =>
        LET n == trim(toLowerCase(fnCall.name))
            r == fnRet.value
            hasObserve == ContainsAny(n, {Wait, <<"v","e","r","i","f","y">>,
                                          <<"c","h","e","c","k">>,
                                          <<"c","o","n","f","i","r","m">>})
        IN  /\ hasObserve => r = observe
            /\ MatchesAct(n) => r = act
            /\ MatchesExtract(n) => r = extract
            /\ (~hasObserve /\ ~MatchesAct(n) /\ ~MatchesExtract(n)) => r = Null

\* C16 amended: a name that (lower-cased and trimmed) starts with wait or
\* contains ensure, verify, check or confirm yields observe; a name with an act
\* keyword and outside the observe rule yields act; a name with an extract
\* keyword and outside both yields extract; of the remaining names the
\* canonical ones yield themselves and all others null.  wait elsewhere than at
\* the start does not count for observe.
C16_KeywordClasses ==
    (fnCall.fn = "normalizeCommandName" /\ fnRet.done) =>
        LET n == trim(toLowerCase(fnCall.name))
            r == fnRet.value
            hasObserve == StartsWith(n, Wait) \/ ContainsAny(n, ObserveWords)
            hasAct == ContainsAny(n, ActWords)
            hasExtract == ContainsAny(n, ExtractWords)
        IN  /\ hasObserve => r = observe
            /\ (hasAct /\ ~hasObserve) => r = act
            /\ (hasExtract /\ ~hasAct /\ ~hasObserve) => r = extract
            /\ (~hasExtract /\ ~hasAct /\ ~hasObserve) =>
                  r = (IF n \in {observe, act} THEN n ELSE Null)
            /\ (Contains(n, Wait) /\ ~hasObserve) => r # observe

\* C16 witness: "xwait" holds wait, not at its start, and yields null
C16_Witness ==
    /\ fnCall.fn = "normalizeCommandName"
    /\ fnCall.name = <<"x","w","a","i","t">>
    /\ fnRet.done
    /\ fnRet.value = Null

-----------------------------------------------------------------------------
(* Properties of extractFinalOutput                                        *)

SynthDone == fnCall.fn = "extractFinalOutput" /\ fnRet.done

\* the positions of the plan's extract steps, and of those whose cleaned
\* output is long enough and has no "not found" marker
ExtractPositions == {k \in DOMAIN fnCall.plan : fnCall.plan[k].name = extract}
QualifyingExtracts ==
    {k \in ExtractPositions : IsMeaningfulContent(CleanOutput(fnCall.outputs[k]))}

\* the positions of the outputs the fallback scan accepts
CandidateOutputs ==
    {k \in DOMAIN fnCall.outputs :
        \/ Contains(fnCall.outputs[k], NavigatedMarker)
        \/ /\ Len(fnCall.outputs[k]) > 20
           /\ ~Contains(fnCall.outputs[k], ActionOk)
           /\ ~Contains(fnCall.outputs[k], ObservedEcho)}

\* C17 as stated: the extract steps are scanned in reverse order and the
\* cleaned output of the first qualifying one is returned, also when the last
\* extract step does not qualify and an earlier one does.
C17_ReverseScan ==
    (SynthDone /\ QualifyingExtracts # {}) =>
        fnRet.value = CleanOutput(fnCall.outputs[MaxOf(QualifyingExtracts)])

\* C18: when the last extract step of the plan has an output that qualifies
\* after prefix stripping, the result is that step's cleaned output, whatever
\* the other outputs are, and not the output of an act or observe step.
C18_LastExtractWins ==
    (SynthDone /\ ExtractPositions # {}
     /\ MaxOf(ExtractPositions) \in QualifyingExtracts) =>
        LET last == MaxOf(ExtractPositions)
            out == fnCall.outputs[last]
        IN  /\ fnRet.value = CleanOutput(out)
            /\ out = BreakingNewsOutput => fnRet.value = BreakingNews
            /\ out = ChainedOutput => fnRet.value = LatestUpdate
            /\ out = ClickedOutput => fnRet.value = ClickedOutput
            /\ \A k \in DOMAIN fnCall.plan :
                  (fnCall.plan[k].name # extract /\ fnCall.outputs[k] # CleanOutput(out))
                  => fnRet.value # fnCall.outputs[k]

\* C18 witness: plan act, observe, extract with three outputs, the act output
\* being a candidate of the fallback scan
C18_Witness ==
    /\ SynthDone
    /\ Len(fnCall.plan) = 3
    /\ fnCall.plan[1].name = act /\ fnCall.outputs[1] = NavigatedOutput
    /\ fnCall.plan[2].name = observe /\ fnCall.outputs[2] = ObservedOutput
    /\ fnCall.plan[3].name = extract /\ fnCall.outputs[3] = BreakingNewsOutput
    /\ fnRet.value = BreakingNews

\* C19: when no extract step qualifies, the result is the last output that
\* holds the navigation marker or is longer than the minimum and no action or
\* observation echo, and the fallback sentence when there is none; the result
\* is always the cleaned output of an extract step, an element of outputs or
\* the fallback sentence.
C19_FallbackScan ==
    SynthDone =>
        /\ QualifyingExtracts = {} =>
              fnRet.value = (IF CandidateOutputs # {}
                             THEN fnCall.outputs[MaxOf(CandidateOutputs)]
                             ELSE FallbackSentence)
        /\ \/ \E k \in ExtractPositions : fnRet.value = CleanOutput(fnCall.outputs[k])
           \/ \E k \in DOMAIN fnCall.outputs : fnRet.value = fnCall.outputs[k]
           \/ fnRet.value = FallbackSentence

\* C19 witness: the only extract output is too short, two outputs are
\* candidates and the later one is returned
C19_Witness ==
    /\ SynthDone
    /\ Len(fnCall.plan) = 3
    /\ fnCall.outputs = <<NavigatedOutput, ClickedOutput, TenCharOutput>>
    /\ fnCall.plan[2].name = act
    /\ fnCall.plan[3].name = extract
    /\ fnRet.value = ClickedOutput

-----------------------------------------------------------------------------
(* Properties of a whole task                                              *)

\* C20 as stated: an empty Plan is legal end to end: a finalize_plan call with
\* zero steps is accepted and returned by plan(); execute([]) invokes no
\* capability, requests no artifact and returns an empty output sequence; the
\* synthesizer on ([], []) returns the fixed fallback sentence.
C20_EmptyPlanEndToEnd ==
    /\ (FinalizeProcessed /\ tc.arguments.val = EmptyRaw) =>
          /\ state = "Finalized"
          /\ planResult = Plan(<<>>)
    /\ (xstate # "unstarted" /\ xplan = <<>>) =>
          /\ outputs = <<>>
          /\ captures = <<>>
          /\ \A k \in DOMAIN invocations : invocations[k].caller \notin {StepCaller(j) : j \in 1..MaxPlanLen}
          /\ xstate \in {"idle", "returned"}
    /\ (SynthDone /\ fnCall.plan = <<>> /\ fnCall.outputs = <<>>) =>
          fnRet.value = FallbackSentence

\* C21 as stated: navigate composes plan then execute.  If plan fails,
\* navigate fails with that error and the execution phase never starts: no
\* plan step is invoked, no capture is requested.  If plan succeeds, navigate
\* returns that Plan together with outputs of the same length.
C21_NavigateComposes ==
    /\ state \in {"Failed", "Exhausted"} =>
          /\ NavigateOutcome = [status |-> "rejected", error |-> planError]
          /\ planError # NoError
          /\ xstate = "unstarted"
          /\ outputs = <<>>
          /\ captures = <<>>
          /\ \A k \in DOMAIN invocations : invocations[k].caller[1] # 0
    /\ state = "Negotiating" => xstate = "unstarted"
    /\ state = "Finalized" =>
          /\ NavigateOutcome.status \in {"pending", "returned"}
          /\ xstate # "unstarted" => xplan = planResult.plan
          /\ NavigateOutcome.status = "returned" =>
                /\ NavigateOutcome.plan = planResult.plan
                /\ Len(NavigateOutcome.outputs) = Len(planResult.plan)

-----------------------------------------------------------------------------
(* Properties of execute: artifact captures and the order of its calls    *)

\* the slug that slugify should give for each query of ExecSteps, written out
ExpectedSlug(query) ==
    IF query = UrlQuery THEN UrlSlug
    ELSE IF query = LongQuery THEN LongSlug
    ELSE query

C23_CaptureFailureNonFatal ==
    \A i \in DOMAIN captures :
        ~captures[i].saved =>
            /\ xstate \in {"invoke", "capture", "returned"}
            /\ xstate = "returned" <=> Len(captures) = Len(xplan)
            /\ \A k \in DOMAIN outputs :
                  outputs[k] = IF invocations[k].outcome = "ok"
                               THEN Returned(xplan[k].name, xplan[k].query,
                                             invocations[k].version)
                               ELSE ErrorPayload(invocations[k].outcome)
            /\ Len(outputs) >= i
            /\ xstate = "returned" =>
                  \A j \in (i + 1)..Len(xplan) :
                      /\ invocations[j].caller = StepCaller(j)
                      /\ captures[j].ordinal = j
                      /\ Len(outputs) >= j

\* C23 witness: a returned 3-step plan whose first capture failed and whose
\* later captures were saved
C23_Witness ==
    /\ xstate = "returned"
    /\ Len(xplan) = 3
    /\ ~captures[1].saved
    /\ captures[2].saved
    /\ captures[3].saved
    /\ invocations[1].outcome = "ok"
    /\ outputs[1] = Returned(xplan[1].name, xplan[1].query, invocations[1].version)
    /\ Len(outputs) = 3

\* C30: execution is strictly sequential.  The invocations made for the plan
\* are those of steps 1, 2, ... in order, one each; step i+1 is invoked only
\* when step i has been invoked and captured, a capture is requested only
\* when its step has been invoked, and execute waits for at most one call.
C30_StrictlySequential ==
    /\ \A k \in DOMAIN invocations :
          /\ invocations[k].caller = StepCaller(k)
          /\ k <= Len(xplan)
    /\ \A k \in DOMAIN captures : captures[k].ordinal = k
    /\ xstate = "invoke" => Len(invocations) = xi /\ Len(captures) = xi
    /\ xstate = "capture" => Len(invocations) = xi + 1 /\ Len(captures) = xi
    /\ xstate = "returned" =>
          Len(invocations) = Len(xplan) /\ Len(captures) = Len(xplan)
    /\ xstate \in {"idle", "rejected"} => invocations = <<>> /\ captures = <<>>

\* C30 witness: a returned 3-step plan whose second capability call failed:
\* three invocations and three captures, alternating
C30_Witness ==
    /\ xstate = "returned"
    /\ Len(xplan) = 3
    /\ Len(invocations) = 3
    /\ Len(captures) = 3
    /\ invocations[2].outcome # "ok"
    /\ invocations[3].caller = StepCaller(3)
    /\ captures[3].saved

-----------------------------------------------------------------------------
(* Properties of the read cache of plan(): freshness of what it serves     *)

\* the provider invocations made before the tool entry at position b of the
\* transcript was written: those made for the tool calls answered before it
InvokedBefore(T, b) ==
    {k \in DOMAIN invocations : \E a \in 1..(b - 1) : invocations[k].caller = T[a].tool_call_id}

\* C29: no stale read.  Whenever plan() answers an observe or extract tool
\* call from the cache (no invocation is made for it), the payload it serves
\* is what the latest earlier invocation of that (kind, query) gave, and no
\* act was invoked on the provider after that invocation and before the
\* call was answered; a payload the provider returned carries the page
\* version that is current when it is served.
C29_NoStaleRead ==
    LET T == ToolEntries(messages) IN
    \A b \in DOMAIN T :
        (IsReadEntry(T[b]) /\ InvocationsFor(T[b]) = {}) =>
            LET earlier == InvokedBefore(T, b)
                fetches == {k \in earlier :
                               <<invocations[k].name, invocations[k].query>> = EntryKey(T[b])}
                acts == {k \in earlier : invocations[k].name = act}
            IN  /\ fetches # {}
                /\ LET fetch == CHOOSE k \in fetches : \A j \in fetches : j <= k
                   IN  /\ T[b].content = ProviderPayload(fetch)
                       /\ \A j \in acts : j < fetch
                       /\ invocations[fetch].outcome = "ok" =>
                             T[b].content.version = Cardinality(acts)

\* C29 witness: an act, then a read that is fetched from the changed page,
\* then the same read served from the cache with the payload of that fetch
C29_Witness ==
    LET T == ToolEntries(messages) IN
    /\ Len(T) = 3
    /\ IsActEntry(T[1])
    /\ IsReadEntry(T[2])
    /\ IsReadEntry(T[3])
    /\ EntryKey(T[2]) = EntryKey(T[3])
    /\ InvocationsFor(T[2]) # {}
    /\ InvocationsFor(T[3]) = {}
    /\ Len(invocations) = 2
    /\ invocations[2].outcome = "ok"
    /\ T[3].content = Returned(EntryKey(T[3])[1], EntryKey(T[3])[2], 1)

-----------------------------------------------------------------------------
(* Properties of executeWebTask and of POST /api/execute                   *)

\* the capability invocation made for plan step k
StepInvocation(k) ==
    invocations[CHOOSE j \in DOMAIN invocations : invocations[j].caller = StepCaller(k)]

\* C24 as stated: in the Result of a task the artifact sequence reflects the
\* actual captures: it lists an artifact reference for step i only if the
\* capture for step i succeeded.
C24_ArtifactsReflectCaptures ==
    (taskResult # NoResult /\ taskResult.success) =>
        \A i \in DOMAIN taskResult.screenshots :
            taskResult.screenshots[i] # JsNull => captures[i].saved

\* C25: the outcome of executeWebTask is always one of two shapes.  A fault of
\* the planning phase gives the structured error: success = false with the
\* error of plan(), empty plan and outputs.  A run whose plan was executed
\* gives success = true with the full plan and one output per step, the
\* output of a step whose capability call failed being the error string.
\* Whichever shape is returned, the page and the browser are not left open:
\* the page was closed, or was never opened because the setup failed.
C25_TwoShapes ==
    /\ page = "open" => taskResult = NoResult
    /\ taskResult # NoResult =>
          /\ page # "open"
          /\ browser # "open"
          /\ page = "none" =>
                /\ ~taskResult.success
                /\ taskResult.error.kind \in SetupOutcomes \ {"ok"}
          /\ taskResult.success =>
                /\ state = "Finalized"
                /\ xstate = "returned"
                /\ DOMAIN taskResult =
                      {"done", "success", "plan", "outputs", "screenshots", "output"}
                /\ taskResult.plan = planResult.plan
                /\ Len(taskResult.outputs) = Len(taskResult.plan)
                /\ Len(taskResult.screenshots) = Len(taskResult.plan)
                /\ \A k \in DOMAIN taskResult.plan :
                      (StepInvocation(k).outcome # "ok")
                          <=> (taskResult.outputs[k] = ErrorOutput)
          /\ ~taskResult.success =>
                /\ DOMAIN taskResult =
                      {"done", "success", "plan", "outputs", "screenshots", "output",
                       "error"}
                /\ taskResult.plan = <<>>
                /\ taskResult.outputs = <<>>
                /\ taskResult.screenshots = <<>>
                /\ taskResult.output = Undefined
                /\ taskResult.error # NoError
          /\ state \in {"Failed", "Exhausted"} =>
                /\ ~taskResult.success
                /\ taskResult.error = planError
          /\ xstate = "returned" => taskResult.success

\* a task whose planning failed: the structured error, the page closed
C25_PlanningFault ==
    /\ taskResult # NoResult
    /\ state \in {"Failed", "Exhausted"}
    /\ ~taskResult.success
    /\ taskResult.error = planError
    /\ page = "closed"

\* C25 witness: a task whose plan of three steps ran with a failed capability
\* call: success = true, the error string among the three outputs, the page
\* closed
C25_Witness ==
    /\ taskResult # NoResult
    /\ taskResult.success
    /\ Len(taskResult.plan) = 3
    /\ taskResult.outputs[2] = ErrorOutput
    /\ taskResult.outputs[3] # ErrorOutput
    /\ page = "closed"

\* C26 as stated: when the automation task fails on the server side, POST
\* /api/execute answers HTTP 500 with a body whose top-level success is false
\* and whose error carries the message; a top-level success: true is sent
\* only when the automation result is itself successful.
C26_FailureAnswered500 ==
    (response # NoResponse /\ taskResult # NoResult) =>
        /\ ~taskResult.success =>
              /\ response.status = 500
              /\ response.body.success = FALSE
              /\ response.body.error = taskResult.error
        /\ taskResult.success => response.status = 200
        /\ response.body.success = taskResult.success

-----------------------------------------------------------------------------
(* Properties of ApiClient and of the app store                            *)

\* C27 as stated: every request that keeps failing with a network error or a
\* 5xx response is re-sent 3 times before its error is surfaced, whatever the
\* outcome of earlier requests and whatever other requests are in flight on
\* the same client.
C27_ThreeRetriesPerRequest ==
    \A r \in DOMAIN reqs :
        (reqs[r].status = "rejected" /\ shouldRetry(reqs[r].last)) =>
            reqs[r].sends = 1 + MAX_ATTEMPTS

\* a lone request on a fresh client that keeps failing is sent four times
C27_LoneRequest ==
    (Len(reqs) = 1 /\ reqs[1].status = "rejected" /\ shouldRetry(reqs[1].last)) =>
        reqs[1].sends = 1 + MAX_ATTEMPTS

\* C28: after any sequence of store actions, reset() restores every field to
\* its initial value: currentQuery '', currentJobId null, isLoading false,
\* error null, history empty, progressUpdates empty.
C28_ResetRestoresInitial ==
    lastAction = "reset" =>
        /\ appState.currentQuery = Str(<<>>)
        /\ appState.currentJobId = JsNull
        /\ appState.isLoading = FALSE
        /\ appState.error = JsNull
        /\ appState.history.items = <<>>
        /\ appState.progressUpdates.items = <<>>

\* C28 witness: reset() has run on a store all six fields of which had been
\* changed
C28_Witness ==
    /\ lastAction = "reset"
    /\ dirty = {"currentQuery", "currentJobId", "isLoading", "error", "history",
                "progressUpdates"}

-----------------------------------------------------------------------------
(* Properties of plan(): the transcript and the order of a round's calls   *)

IsCallsEntry(e) == e.role = "assistant" /\ "tool_calls" \in DOMAIN e

\* the number of tool entries that directly follow position a of a transcript
ToolsAfter(ms, a) ==
    LET run == {n \in 0..(Len(ms) - a) : \A j \in 1..n : ms[a + j].role = "tool"}
    IN  CHOOSE n \in run : \A o \in run : o <= n

\* the transcript is made of the two prompts, assistant texts, and rounds: one
\* assistant entry with the k calls of the turn, followed by the results of
\* the calls processed so far, the j-th tagged with the id of the j-th call;
\* a round that is followed by another entry, or after which the negotiation
\* goes on, has all its k results
RoundsInOrder(ms, st, left) ==
    /\ \A b \in DOMAIN ms :
          ms[b].role = "tool" =>
              \E a \in 1..(b - 1) : IsCallsEntry(ms[a]) /\ b - a <= ToolsAfter(ms, a)
    /\ \A a \in DOMAIN ms :
          IsCallsEntry(ms[a]) =>
              LET calls == ms[a].tool_calls
                  n == ToolsAfter(ms, a)
              IN  /\ n <= Len(calls)
                  /\ \A j \in 1..n : ms[a + j].tool_call_id = calls[j].id
                  /\ a + n < Len(ms) => n = Len(calls)
                  /\ (a + n = Len(ms) /\ st = "Negotiating") => n = Len(calls) - Len(left)

\* C31: the tool calls of one model turn are processed one at a time in the
\* order returned and the transcript is append-only: no step removes or
\* reorders an entry, a step appends at most one entry, the call processed is
\* the first of those left and its result is tagged with its id, and a round
\* with k tool calls that the negotiation got through is one assistant entry
\* followed by k tool results, the j-th tagged with the id of the j-th call.
C31_TranscriptInOrder ==
    [][ /\ Len(messages') >= Len(messages)
        /\ Len(messages') <= Len(messages) + 1
        /\ SubSeq(messages', 1, Len(messages)) = messages
        /\ toolCalls # <<>> =>
              /\ toolCalls' = Tail(toolCalls)
              /\ tc' = Head(toolCalls)
              /\ Len(messages') = Len(messages) + 1 =>
                    /\ messages'[Len(messages')].role = "tool"
                    /\ messages'[Len(messages')].tool_call_id = Head(toolCalls).id
              /\ state' = "Negotiating" => Len(messages') = Len(messages) + 1
        /\ RoundsInOrder(messages', state', toolCalls') ]_vars

\* C31 witness: a round of three calls got through: the assistant entry, then
\* three tool results tagged with the ids of the calls in order
C31_Witness ==
    /\ state = "Negotiating"
    /\ toolCalls = <<>>
    /\ Len(messages) = 6
    /\ IsCallsEntry(messages[3])
    /\ Len(messages[3].tool_calls) = 3
    /\ \A j \in 1..3 : /\ messages[3 + j].role = "tool"
                        /\ messages[3 + j].tool_call_id = messages[3].tool_calls[j].id

-----------------------------------------------------------------------------
(* Properties of plan() calls that share a PageNavigator                   *)

\* C32: the cache and its flag are scoped to one plan() call.  Whatever the
\* other call on the same PageNavigator does, and however the two interleave
\* at their awaits: the first read of a (kind, query) in a session invokes
\* the provider; a later read of the pair with no act of the same session in
\* between is served from the session's cache with the payload of the
\* session's own earlier read; a read after an act of the same session
\* invokes the provider; the cache holds only keys the session itself read,
\* and the flag is set exactly when the session's last act has no read after.
C32_SessionScoped ==
    \A s \in DOMAIN sessions :
        LET log == sessions[s].log
            Acts(i) == {j \in 1..(i - 1) : log[j].name = act}
            Same(i) == {j \in 1..(i - 1) : /\ log[j].name = log[i].name
                                           /\ log[j].query = log[i].query}
            Last(S) == CHOOSE j \in S : \A o \in S : o <= j
        IN  /\ \A i \in DOMAIN log :
                  IF log[i].name = act THEN log[i].invoked
                  ELSE /\ Same(i) = {} => log[i].invoked
                       /\ (Same(i) # {} /\ \A a \in Acts(i) : a < Last(Same(i))) =>
                             /\ ~log[i].invoked
                             /\ log[i].content = log[Last(Same(i))].content
                       /\ (Same(i) # {} /\ \E a \in Acts(i) : a > Last(Same(i))) =>
                             log[i].invoked
            /\ \A key \in DOMAIN sessions[s].cache :
                  \E i \in DOMAIN log : key = <<log[i].name, log[i].query>> /\ log[i].name # act
            /\ sessions[s].pending = NoPending =>
                  (sessions[s].flag <=>
                      \E a \in DOMAIN log : /\ log[a].name = act
                                            /\ \A i \in (a + 1)..Len(log) : log[i].name = act)

\* C32 witness: session 1 reads a pair, session 2 acts and then reads the same
\* pair for the first time, which invokes the provider; session 1 reads the
\* pair again after that act and is served from its own cache
C32_Witness ==
    /\ Len(sessions) = 2
    /\ Len(sessions[1].log) = 2
    /\ Len(sessions[2].log) = 2
    /\ sessions[1].log[1].name = observe
    /\ sessions[1].log[1].invoked
    /\ sessions[2].log[1].name = act
    /\ sessions[2].log[2].name = observe
    /\ sessions[2].log[2].query = sessions[1].log[1].query
    /\ sessions[2].log[2].invoked
    /\ sessions[1].log[2].name = observe
    /\ ~sessions[1].log[2].invoked
    /\ sessions[1].log[2].at >= 2
    /\ invocations[1].caller = <<1, 1>>
    /\ invocations[2].caller = <<2, 1>>
    /\ invocations[2].name = act

-----------------------------------------------------------------------------
(* Properties of plan(): failed reads and turns that finalize              *)

\* C33: a failed read is cached like a successful one.  When the provider
\* rejects an observe or extract tool call, the error payload is the call's
\* tool result and is stored under the call's (kind, query) key; every later
\* read of that pair with no act in between is answered with the same error
\* payload and no provider invocation.
C33_FailedReadCached ==
    LET T == ToolEntries(messages) IN
    \A a \in DOMAIN T :
        \A k \in InvocationsFor(T[a]) :
            (IsReadEntry(T[a]) /\ invocations[k].outcome # "ok") =>
                /\ T[a].content = [error |-> invocations[k].outcome]
                /\ a = Len(T) =>
                      /\ EntryKey(T[a]) \in DOMAIN cache
                      /\ cache[EntryKey(T[a])] = T[a].content
                /\ \A b \in (a + 1)..Len(T) :
                      ( /\ IsReadEntry(T[b])
                        /\ EntryKey(T[b]) = EntryKey(T[a])
                        /\ \A c \in (a + 1)..(b - 1) : ~IsActEntry(T[c]) )
                      => /\ InvocationsFor(T[b]) = {}
                         /\ T[b].content = T[a].content

\* C33 witness: a read is rejected, another read goes by, and the first read
\* is asked again: one invocation for it, the error payload served again
C33_Witness ==
    LET T == ToolEntries(messages) IN
    /\ Len(T) = 3
    /\ IsReadEntry(T[1]) /\ IsReadEntry(T[2]) /\ IsReadEntry(T[3])
    /\ EntryKey(T[1]) = EntryKey(T[3])
    /\ EntryKey(T[1]) # EntryKey(T[2])
    /\ Len(invocations) = 2
    /\ invocations[1].outcome = "timeout"
    /\ T[3].content = [error |-> "timeout"]
    /\ InvocationsFor(T[3]) = {}

\* C34: when one model turn holds finalize_plan together with capability
\* calls, the calls listed after finalize_plan are never processed: no
\* provider invocation and no transcript entry is made for them; when the
\* finalize call is reached plan() has returned or failed, every call listed
\* before it has its tool result (an act among them was invoked), and the
\* calls after it are left unprocessed.
C34_NothingAfterFinalize ==
    \A a \in DOMAIN messages :
        IsCallsEntry(messages[a]) =>
            LET calls == messages[a].tool_calls IN
            \A f \in DOMAIN calls :
                ( /\ calls[f].name = Str(finalize_plan)
                  /\ \A j \in 1..(f - 1) : calls[j].name # Str(finalize_plan) )
                => /\ \A j \in (f + 1)..Len(calls) :
                         /\ \A k \in DOMAIN invocations :
                               invocations[k].caller # calls[j].id
                         /\ \A p \in DOMAIN messages :
                               messages[p].role = "tool" =>
                                   messages[p].tool_call_id # calls[j].id
                   /\ tc.id = calls[f].id =>
                         /\ state \in {"Finalized", "Failed"}
                         /\ toolCalls = SubSeq(calls, f + 1, Len(calls))
                         /\ \A j \in 1..(f - 1) :
                               /\ messages[a + j].role = "tool"
                               /\ messages[a + j].tool_call_id = calls[j].id
                               /\ calls[j].name = Str(act) =>
                                     \E k \in DOMAIN invocations :
                                         invocations[k].caller = calls[j].id

\* C34 witness: a turn of an act call, finalize_plan and a read: the act was
\* invoked and answered, plan() returned at the finalize call, and the read
\* after it was left alone
C34_Witness ==
    /\ state = "Finalized"
    /\ Len(messages) = 5
    /\ IsCallsEntry(messages[3])
    /\ Len(messages[3].tool_calls) = 3
    /\ messages[3].tool_calls[1].name = Str(act)
    /\ messages[3].tool_calls[2].name = Str(finalize_plan)
    /\ messages[3].tool_calls[3].name = Str(observe)
    /\ tc.id = messages[3].tool_calls[2].id
    /\ toolCalls = <<messages[3].tool_calls[3]>>
    /\ Len(invocations) = 1
    /\ invocations[1].name = act

(* Properties of the app's submit-and-poll flow.                            *)

\* the history entry with the given id
HistoryEntry(id) ==
    LET items == appState.history.items
    IN  items[CHOOSE k \in DOMAIN items : items[k].id = id]

\* C35: the history entry created by a submit tracks its job: once the
\* Result screen has observed 'completed' for the job id the submission
\* returned, the entry's status is 'completed' and no longer 'in-progress'.
C35_EntryTracksJob ==
    \A n \in DOMAIN screens.submissions :
        LET s == screens.submissions[n] IN
        ( /\ screens.jobId = s.jobId
          /\ screens.isCompleted )
        => HistoryEntry(s.historyId).status = "completed"

\* what the code does instead: no entry of the history ever carries a job id,
\* so updateHistoryStatus matches none and every entry stays 'in-progress'
EntriesStayInProgress ==
    \A k \in DOMAIN appState.history.items :
        /\ appState.history.items[k].jobId = Undefined
        /\ appState.history.items[k].status = "in-progress"

====
